---- MODULE Spec2Model ----
(***************************************************************************)
(* Three-layer strategy engine of src/app.py (market_regime_gate,          *)
(* select_strategy_mode, evaluate_stock, strategy_engine) and              *)
(* TechProvider._process_indicators, as pure functions of a price/volume   *)
(* table; and the other entry points of a scan: analyze_stock,             *)
(* advanced_quant_filter, ma5_breakout_ma20_filter (functions of the table *)
(* df and the fundamentals info) and detect_chip_switch (a function of the *)
(* net-flow table aligned_chips).                                          *)
(*                                                                         *)
(* A table (pandas DataFrame) is [none : BOOLEAN, rows : Seq(Row)]; none   *)
(* stands for Python's None.  A Row holds the columns the layers read, and *)
(* every table carries all of them (the `'MA60' in df.columns` fallbacks   *)
(* of the source are not taken).  Column values are integers or NaN.       *)
(* Every floating-point test of the source is written as the equivalent    *)
(* integer test (a/b <= 0.05 with b > 0 is 100*a <= 5*b, and so on); a     *)
(* comparison with a NaN operand is false, as in IEEE arithmetic.          *)
(***************************************************************************)
EXTENDS Integers, Sequences, FiniteSets, TLC

VARIABLES df, aligned_chips, info, call, ret, warnings, session_state

vars == <<df, aligned_chips, info, call, ret, warnings, session_state>>

\* float('nan'): a value outside every value range of the model.
NaN == -1000000

\* len(df) < 30 in every layer and in the pipeline.
MIN_ROWS == 30

\* prev_n_days(series, 10): the width of the "prior N days" window.
PRIOR_N == 10

\* .tail(5) of the MA60 differences.
SLOPE_TAIL == 5

\* Largest number of rows beyond MIN_ROWS in the tables explored.
MaxExtraRows == 1

\* rolling(window=60) / rolling(60): the longest window of the pipeline.
LONG_WINDOW == 60

\* Rows beyond LONG_WINDOW in the long tables given to the pipeline.
MaxLongExtraRows == 3

----------------------------------------------------------------------------
(* Floating-point comparisons: false as soon as one operand is NaN. *)

IsNum(x) == x # NaN

Gt(a, b) == IsNum(a) /\ IsNum(b) /\ a > b
Ge(a, b) == IsNum(a) /\ IsNum(b) /\ a >= b
Lt(a, b) == IsNum(a) /\ IsNum(b) /\ a < b
Le(a, b) == IsNum(a) /\ IsNum(b) /\ a <= b

Abs(x) == IF x < 0 THEN -x ELSE x

\* a - b in floating point: NaN when an operand is NaN.
Sub(a, b) == IF IsNum(a) /\ IsNum(b) THEN a - b ELSE NaN

\* Mutant of insufficient: only the emptiness test, the row count forgotten.
insufficient_empty_only(d) == d.none \/ Len(d.rows) = 0

\* df is None or df.empty or len(df) < 30
insufficient(d) == d.none \/ Len(d.rows) < MIN_ROWS

\* df.iloc[-1]
curr_row(d) == d.rows[Len(d.rows)]

\* df.iloc[-2] if len(df) > 1 else curr
prev_row(d) == IF Len(d.rows) > 1 THEN d.rows[Len(d.rows) - 1] ELSE curr_row(d)

RECURSIVE SumDefined(_, _)
SumDefined(f, S) ==
    IF S = {} THEN 0
    ELSE LET i == CHOOSE j \in S : TRUE
         IN  (IF IsNum(f[i]) THEN f[i] ELSE 0) + SumDefined(f, S \ {i})

\* df['MA60'].diff().tail(5).mean(): pandas' mean skips NaN and is NaN when
\* nothing is defined.  The mean is the sum of the defined differences divided
\* by their (positive) count; the layers only test its sign, so the sum of the
\* defined differences stands for it.
ma60_slope(d) ==
    LET n     == Len(d.rows)
        diff  == [i \in 1..n |->
                    IF i = 1 THEN NaN
                    ELSE Sub(d.rows[i].MA60, d.rows[i - 1].MA60)]
        tail  == {i \in 1..n : i > n - SLOPE_TAIL}
        defd  == {i \in tail : IsNum(diff[i])}
    IN  IF defd = {} THEN NaN ELSE SumDefined(diff, defd)

\* Mutant of prev_n_days: the last n rows, today included (series.iloc[-n:]).
prev_n_days_with_today(d, n) ==
    LET len == Len(d.rows)
    IN  IF len < n + 1 THEN {} ELSE (len - n + 1) .. len

\* prev_n_days(series, n): the indices of series.iloc[-(n+1):-1], empty when
\* the series has fewer than n+1 entries.
prev_n_days(d, n) ==
    LET len == Len(d.rows)
    IN  IF len < n + 1 THEN {} ELSE (len - n) .. (len - 1)

\* Series.min() / Series.max() over a window of one column: NaN entries are
\* skipped, and the result is NaN when no entry is defined.
window_min(d, col, W) ==
    LET V == {d.rows[i][col] : i \in W} \ {NaN}
    IN  IF V = {} THEN NaN ELSE CHOOSE v \in V : \A w \in V : v <= w

window_max(d, col, W) ==
    LET V == {d.rows[i][col] : i \in W} \ {NaN}
    IN  IF V = {} THEN NaN ELSE CHOOSE v \in V : \A w \in V : v >= w

\* Mutant of market_regime_gate: close > MA60 where the code tests close >= MA60.
market_regime_gate_strict(d) ==
    IF d.none \/ Len(d.rows) < MIN_ROWS
    THEN [allow_long |-> FALSE, regime |-> "UNKNOWN", reason |-> "gate:insufficient"]
    ELSE
      LET curr == d.rows[Len(d.rows)]
      IN  IF Gt(curr.Close, curr.MA60) /\ Ge(curr.MA20, curr.MA60) /\ Gt(ma60_slope(d), 0)
          THEN [allow_long |-> TRUE, regime |-> "BULL", reason |-> "gate:bull"]
          ELSE IF Gt(curr.Close, curr.MA60)
          THEN [allow_long |-> TRUE, regime |-> "NEUTRAL", reason |-> "gate:neutral"]
          ELSE [allow_long |-> FALSE, regime |-> "BEAR", reason |-> "gate:bear"]

----------------------------------------------------------------------------
(* Layer 1: market_regime_gate *)

market_regime_gate(d) ==
    IF insufficient(d)
    THEN [allow_long |-> FALSE, regime |-> "UNKNOWN", reason |-> "gate:insufficient"]
    ELSE
      LET curr       == curr_row(d)
          close      == curr.Close
          ma20       == curr.MA20
          ma60       == curr.MA60
          slope      == ma60_slope(d)
      IN  IF Ge(close, ma60) /\ Ge(ma20, ma60) /\ Gt(slope, 0)
          THEN [allow_long |-> TRUE, regime |-> "BULL", reason |-> "gate:bull"]
          ELSE IF Ge(close, ma60)
          THEN [allow_long |-> TRUE, regime |-> "NEUTRAL", reason |-> "gate:neutral"]
          ELSE [allow_long |-> FALSE, regime |-> "BEAR", reason |-> "gate:bear"]

----------------------------------------------------------------------------
(* Layer 2: select_strategy_mode *)

\* abs(close - ma) / ma <= pct/100 if ma > 0 else False
price_near(close, ma, pct) ==
    Gt(ma, 0) /\ IsNum(close) /\ 100 * Abs(close - ma) <= pct * ma

\* Mutant of is_low_consolidation: without the test close < ma60.
is_low_consolidation_near_only(close, ma60) ==
    IsNum(close) /\ IsNum(ma60) /\ 10 * close > 9 * ma60

\* is_low_consolidation = (close < ma60) and (close > ma60 * 0.9)
is_low_consolidation(close, ma60) ==
    Lt(close, ma60) /\ 10 * close > 9 * ma60

\* Mutant of trend_test: the slope test dropped.
trend_test_no_slope(close, ma20, ma60, slope) ==
    /\ Gt(close, ma20)
    /\ Ge(close, ma60)
    /\ Ge(ma20, ma60)
    /\ ~is_low_consolidation(close, ma60)

\* The Mode B (Trend) test of the selector.
trend_test(close, ma20, ma60, slope) ==
    /\ Gt(close, ma20)
    /\ Ge(close, ma60)
    /\ Ge(ma20, ma60)
    /\ Gt(slope, 0)
    /\ ~is_low_consolidation(close, ma60)

\* no_new_low = close >= recent_low if not window.empty else True
no_new_low(d, close, col) ==
    LET W == prev_n_days(d, PRIOR_N)
    IN  IF W = {} THEN TRUE ELSE Ge(close, window_min(d, col, W))

\* Mutant of pullback_test: slope > 0 where the code tests slope >= 0.
pullback_test_rising_only(d, close, ma20, ma60, slope) ==
    /\ (price_near(close, ma20, 5) \/ price_near(close, ma60, 5))
    /\ no_new_low(d, close, "Low")
    /\ Gt(slope, 0)

\* The Mode A (Pullback) test of the selector.
pullback_test(d, close, ma20, ma60, slope) ==
    /\ (price_near(close, ma20, 5) \/ price_near(close, ma60, 5))
    /\ no_new_low(d, close, "Low")
    /\ Ge(slope, 0)

\* Mutant of select_strategy_mode: the Pullback test is tried before the
\* Trend test.
select_strategy_mode_pullback_first(d, market_regime) ==
    IF insufficient(d)
    THEN [mode |-> "NoTrade", reason |-> "mode:insufficient"]
    ELSE IF market_regime = "BEAR"
    THEN [mode |-> "NoTrade", reason |-> "mode:bear"]
    ELSE
      LET curr  == curr_row(d)
          close == curr.Close
          ma20  == curr.MA20
          ma60  == curr.MA60
          slope == ma60_slope(d)
      IN  IF pullback_test(d, close, ma20, ma60, slope)
          THEN [mode |-> "Pullback", reason |-> "mode:A"]
          ELSE IF trend_test(close, ma20, ma60, slope)
          THEN [mode |-> "Trend", reason |-> "mode:B"]
          ELSE [mode |-> "NoTrade",
                reason |-> IF market_regime = "NEUTRAL"
                           THEN "mode:none(neutral)" ELSE "mode:none"]

select_strategy_mode(d, market_regime) ==
    IF insufficient(d)
    THEN [mode |-> "NoTrade", reason |-> "mode:insufficient"]
    ELSE IF market_regime = "BEAR"
    THEN [mode |-> "NoTrade", reason |-> "mode:bear"]
    ELSE
      LET curr  == curr_row(d)
          close == curr.Close
          ma20  == curr.MA20
          ma60  == curr.MA60
          slope == ma60_slope(d)
      IN  IF trend_test(close, ma20, ma60, slope)
          THEN [mode |-> "Trend", reason |-> "mode:B"]
          ELSE IF pullback_test(d, close, ma20, ma60, slope)
          THEN [mode |-> "Pullback", reason |-> "mode:A"]
          ELSE [mode |-> "NoTrade",
                reason |-> IF market_regime = "NEUTRAL"
                           THEN "mode:none(neutral)" ELSE "mode:none"]

----------------------------------------------------------------------------
(* Layer 3: evaluate_stock *)

\* MAX_MA60_EXTENSION = 1.25, in percent.
MAX_MA60_EXTENSION == 125

\* Mutant of is_overextended: >= where the code tests >.
is_overextended_inclusive(close, ma60) ==
    Gt(ma60, 0) /\ IsNum(close) /\ 100 * close >= MAX_MA60_EXTENSION * ma60

\* ma60_extension_ratio = close / ma60 if ma60 > 0 else 1.0
\* is_overextended = ma60_extension_ratio > MAX_MA60_EXTENSION
is_overextended(close, ma60) ==
    Gt(ma60, 0) /\ IsNum(close) /\ 100 * close > MAX_MA60_EXTENSION * ma60

\* The Watch block: only under BULL, by mode.
\* Mutant of watch_cond: Mode A watch without the prior-10 close test.
watch_cond_no_prior_close(d, market_regime, strategy_mode) ==
    LET curr  == curr_row(d)
        close == curr.Close
        ma20  == curr.MA20
        ma60  == curr.MA60
        slope == ma60_slope(d)
    IN  /\ market_regime = "BULL"
        /\ \/ /\ strategy_mode = "Trend"
              /\ Gt(close, ma20)
              /\ Ge(close, ma60)
              /\ Ge(ma20, ma60)
              /\ Gt(slope, 0)
           \/ /\ strategy_mode = "Pullback"
              /\ Ge(close, ma60)

watch_cond(d, market_regime, strategy_mode) ==
    LET curr  == curr_row(d)
        close == curr.Close
        ma20  == curr.MA20
        ma60  == curr.MA60
        slope == ma60_slope(d)
    IN  /\ market_regime = "BULL"
        /\ \/ /\ strategy_mode = "Trend"
              /\ Gt(close, ma20)
              /\ Ge(close, ma60)
              /\ Ge(ma20, ma60)
              /\ Gt(slope, 0)
           \/ /\ strategy_mode = "Pullback"
              /\ Ge(close, ma60)
              /\ no_new_low(d, close, "Close")

\* Mutant of breakout_trigger: volume > 1.5 x Vol_MA20 where the code has >=.
breakout_trigger_strict_volume(d) ==
    LET curr == curr_row(d)
        W    == prev_n_days(d, PRIOR_N)
        recent_high_10 == IF W = {} THEN NaN ELSE window_max(d, "High", W)
    IN  /\ Gt(curr.Close, recent_high_10)
        /\ IsNum(curr.Volume) /\ IsNum(curr.Vol_MA20)
        /\ 2 * curr.Volume > 3 * curr.Vol_MA20

\* Mode B breakout: close above the prior-10 high and volume >= 1.5 x Vol_MA20.
breakout_trigger(d) ==
    LET curr == curr_row(d)
        W    == prev_n_days(d, PRIOR_N)
        recent_high_10 == IF W = {} THEN NaN ELSE window_max(d, "High", W)
    IN  /\ Gt(curr.Close, recent_high_10)
        /\ IsNum(curr.Volume) /\ IsNum(curr.Vol_MA20)
        /\ 2 * curr.Volume >= 3 * curr.Vol_MA20

\* volume_shrink = vol < vol_ma20 * 0.8
volume_shrink(curr) ==
    IsNum(curr.Volume) /\ IsNum(curr.Vol_MA20) /\ 10 * curr.Volume < 8 * curr.Vol_MA20

\* bullish_candle = close > open_price
bullish_candle(curr) == Gt(curr.Close, curr.Open)

\* long_lower_shadow = (close - low) / (high - low) > 0.5 if high > low else False
long_lower_shadow(curr) ==
    /\ Gt(curr.High, curr.Low)
    /\ IsNum(curr.Close)
    /\ 2 * (curr.Close - curr.Low) > curr.High - curr.Low

\* Mode B pullback-hold trigger.
pullback_trigger(d) ==
    LET curr == curr_row(d)
    IN  /\ (price_near(curr.Close, curr.MA20, 2) \/ price_near(curr.Close, curr.MA10, 2))
        /\ volume_shrink(curr)
        /\ (bullish_candle(curr) \/ long_lower_shadow(curr))

\* kd_reversal = (k > d) and (prev_k <= prev_d) unless one of the four is NaN
kd_reversal(d) ==
    LET curr   == curr_row(d)
        prev   == prev_row(d)
        prev_k == IF Len(d.rows) > 1 THEN prev.K ELSE NaN
        prev_d == IF Len(d.rows) > 1 THEN prev.D ELSE NaN
    IN  Gt(curr.K, curr.D) /\ Le(prev_k, prev_d)

\* Mutant of rsi_rebound: the closed interval [40, 60].
rsi_rebound_inclusive(curr) == Ge(curr.RSI, 40) /\ Le(curr.RSI, 60)

\* rsi_rebound = rsi_curr > 40 and rsi_curr < 60
rsi_rebound(curr) == Gt(curr.RSI, 40) /\ Lt(curr.RSI, 60)

\* Mode A trigger: all three conditions.
modeA_trigger(d) ==
    LET curr == curr_row(d)
    IN  /\ no_new_low(d, curr.Close, "Close")
        /\ \/ bullish_candle(curr)
           \/ volume_shrink(curr)
           \/ kd_reversal(d)
           \/ rsi_rebound(curr)
        /\ Ge(curr.Close, curr.MA60)

\* Mutant of buy_gate: the Buy block guarded by the overextension test alone.
buy_gate_no_watch(watch, overextended) == ~overextended

\* if watch and not is_overextended: the guard of the whole Buy block.
buy_gate(watch, overextended) == watch /\ ~overextended

\* The Buy block: buy as it stands when control reaches the defensive check.
buy_cond(d, strategy_mode, watch, overextended) ==
    /\ buy_gate(watch, overextended)
    /\ \/ strategy_mode = "Trend" /\ (breakout_trigger(d) \/ pullback_trigger(d))
       \/ strategy_mode = "Pullback" /\ modeA_trigger(d)

\* if buy and not watch: the defensive correction is taken.
defensive_check(buy, watch) == buy /\ ~watch

\* Mutant of confidence_of: NEUTRAL credited like BULL.
confidence_of_neutral20(watch, buy, market_regime) ==
    LET raw == (IF watch THEN 40 ELSE 0) + (IF buy THEN 40 ELSE 0)
               + (IF market_regime \in {"BULL", "NEUTRAL"} THEN 20 ELSE 0)
        capped == IF raw < 100 THEN raw ELSE 100
    IN  IF capped > 0 THEN capped ELSE 0

\* Mutant of confidence_of: no credit for the regime.
confidence_of_no_regime(watch, buy, market_regime) ==
    LET raw == (IF watch THEN 40 ELSE 0) + (IF buy THEN 40 ELSE 0)
        capped == IF raw < 100 THEN raw ELSE 100
    IN  IF capped > 0 THEN capped ELSE 0

\* Confidence: 40 for watch, 40 for buy, 20 under BULL, 10 under NEUTRAL,
\* then max(0, min(100, confidence)).
confidence_of(watch, buy, market_regime) ==
    LET raw == (IF watch THEN 40 ELSE 0) + (IF buy THEN 40 ELSE 0)
               + (IF market_regime = "BULL" THEN 20
                  ELSE IF market_regime = "NEUTRAL" THEN 10 ELSE 0)
        capped == IF raw < 100 THEN raw ELSE 100
    IN  IF capped > 0 THEN capped ELSE 0

\* The reason parts, in the order the code appends them.
reason_of(strategy_mode, watch, buy, overextended, breakout) ==
    LET w1 == IF ~watch THEN <<>>
              ELSE IF strategy_mode = "Trend"
                   THEN (IF overextended THEN <<"watch:B:high">> ELSE <<"watch:B">>)
                   ELSE <<"watch:A">>
        w2 == IF watch /\ overextended THEN <<"overextended">> ELSE <<>>
        b  == IF ~buy THEN <<>>
              ELSE IF strategy_mode = "Trend"
                   THEN (IF breakout THEN <<"buy:B:breakout">> ELSE <<"buy:B:pullback">>)
                   ELSE <<"buy:A">>
        parts == w1 \o w2 \o b
    IN  IF parts = <<>> THEN <<"none">> ELSE parts

\* Every local of one evaluate_stock call: which early return was taken (if
\* any), the flags as they stand at the defensive check, and the returned
\* record.
evaluate_stock_run(d, market_regime, strategy_mode) ==
    LET sentinel(why, tag) ==
            [early |-> why, overextended |-> FALSE, watch |-> FALSE,
             buy_raw |-> FALSE, corrected |-> FALSE,
             result |-> [watch |-> FALSE, buy |-> FALSE, confidence |-> 0,
                         reason |-> <<tag>>]]
    IN  IF insufficient(d) THEN sentinel("insufficient", "eval:insufficient")
        ELSE IF ~Gt(curr_row(d).Vol_MA20, 0) THEN sentinel("liquidity", "eval:liquidity")
        ELSE IF market_regime = "BEAR" THEN sentinel("bear", "eval:bear")
        ELSE IF strategy_mode = "NoTrade" THEN sentinel("notrade", "eval:notrade")
        ELSE
          LET curr    == curr_row(d)
              overext == is_overextended(curr.Close, curr.MA60)
              watch   == watch_cond(d, market_regime, strategy_mode)
              buy_raw == buy_cond(d, strategy_mode, watch, overext)
              fix     == defensive_check(buy_raw, watch)
              buy     == IF fix THEN FALSE ELSE buy_raw
          IN  [early |-> "none", overextended |-> overext, watch |-> watch,
               buy_raw |-> buy_raw, corrected |-> fix,
               result |-> [watch |-> watch, buy |-> buy,
                           confidence |-> confidence_of(watch, buy, market_regime),
                           reason |-> reason_of(strategy_mode, watch, buy, overext,
                                                breakout_trigger(d))]]

\* Mutant of evaluate_stock: watch reported only while buy has not fired.
evaluate_stock_watch_only(d, market_regime, strategy_mode) ==
    LET res == evaluate_stock_run(d, market_regime, strategy_mode).result
    IN  [res EXCEPT !.watch = res.watch /\ ~res.buy]

evaluate_stock(d, market_regime, strategy_mode) ==
    evaluate_stock_run(d, market_regime, strategy_mode).result

----------------------------------------------------------------------------
(* Orchestration: strategy_engine *)

\* "buy" if buy else ("watch" if watch else "none")
signal_of(watch, buy) == IF buy THEN "buy" ELSE IF watch THEN "watch" ELSE "none"

\* mode_display = "B" if strategy_mode == "Trend" else "A"
mode_display(strategy_mode) == IF strategy_mode = "Trend" THEN "B" ELSE "A"

\* A record with the primary fields and the legacy fields.
engine_record(regime, mode, watch, buy, confidence, reason, signal) ==
    [market_regime |-> regime, mode |-> mode, watch |-> watch, buy |-> buy,
     confidence |-> confidence, reason |-> reason,
     regime |-> regime, signal |-> signal, status |-> reason,
     reasons |-> <<reason>>]

\* Mutant of strategy_engine: no return when the selector answers NoTrade.
strategy_engine_no_shortcut(d) ==
    IF insufficient(d)
    THEN [market_regime |-> "UNKNOWN", mode |-> "NoTrade", watch |-> FALSE,
          buy |-> FALSE, confidence |-> 0, reason |-> <<"engine:insufficient">>]
    ELSE
      LET gate_result   == market_regime_gate(d)
          regime        == gate_result.regime
          strategy_mode == select_strategy_mode(d, regime).mode
          eval_result   == evaluate_stock(d, regime, strategy_mode)
      IN  IF ~gate_result.allow_long
          THEN engine_record(regime, "NoTrade", FALSE, FALSE, 0,
                             <<gate_result.reason>>, "none")
          ELSE engine_record(regime, mode_display(strategy_mode),
                             eval_result.watch, eval_result.buy,
                             eval_result.confidence, eval_result.reason,
                             signal_of(eval_result.watch, eval_result.buy))

strategy_engine(d) ==
    IF insufficient(d)
    THEN [market_regime |-> "UNKNOWN", mode |-> "NoTrade", watch |-> FALSE,
          buy |-> FALSE, confidence |-> 0, reason |-> <<"engine:insufficient">>]
    ELSE
      LET gate_result   == market_regime_gate(d)
          regime        == gate_result.regime
          mode_result   == select_strategy_mode(d, regime)
          strategy_mode == mode_result.mode
          eval_result   == evaluate_stock(d, regime, strategy_mode)
      IN  IF ~gate_result.allow_long
          THEN engine_record(regime, "NoTrade", FALSE, FALSE, 0,
                             <<gate_result.reason>>, "none")
          ELSE IF strategy_mode = "NoTrade"
          THEN engine_record(regime, "NoTrade", FALSE, FALSE, 0,
                             <<mode_result.reason>>, "none")
          ELSE engine_record(regime, mode_display(strategy_mode),
                             eval_result.watch, eval_result.buy,
                             eval_result.confidence, eval_result.reason,
                             signal_of(eval_result.watch, eval_result.buy))

\* Whether the evaluate_stock call made by strategy_engine (if it makes one)
\* takes the defensive correction, which logs a warning.
strategy_engine_warns(d) ==
    /\ ~insufficient(d)
    /\ market_regime_gate(d).allow_long
    /\ select_strategy_mode(d, market_regime_gate(d).regime).mode # "NoTrade"
    /\ evaluate_stock_run(d, market_regime_gate(d).regime,
                          select_strategy_mode(d, market_regime_gate(d).regime).mode).corrected

----------------------------------------------------------------------------
(* TechProvider._process_indicators *)

\* Values of the enriched table are stored times SCALE, so that the rolling
\* means over 5, 10, 20 and 60 rows are integers.
SCALE == 60

RECURSIVE SumRange(_, _, _, _)
SumRange(rows, col, lo, hi) ==
    IF lo > hi THEN 0 ELSE rows[hi][col] + SumRange(rows, col, lo, hi - 1)

\* Series.rolling(window=w).mean() at row i, times SCALE: NaN until w rows
\* exist and whenever the window holds a NaN.
rolling_mean(rows, col, i, w) ==
    IF i < w \/ \E j \in (i - w + 1)..i : ~IsNum(rows[j][col])
    THEN NaN
    ELSE (SCALE \div w) * SumRange(rows, col, i - w + 1, i)

\* The highest value of the w rows before row i.
rolling_max_prior(rows, col, i, w) ==
    IF i <= w \/ \E j \in (i - w)..(i - 1) : ~IsNum(rows[j][col])
    THEN NaN
    ELSE SCALE * (CHOOSE v \in {rows[j][col] : j \in (i - w)..(i - 1)} :
                    \A j \in (i - w)..(i - 1) : v >= rows[j][col])

\* Series.rolling(w).max() / .min() at row i, times SCALE.
rolling_max(rows, col, i, w) ==
    IF i < w \/ \E j \in (i - w + 1)..i : ~IsNum(rows[j][col])
    THEN NaN
    ELSE SCALE * (CHOOSE v \in {rows[j][col] : j \in (i - w + 1)..i} :
                    \A j \in (i - w + 1)..i : v >= rows[j][col])

rolling_min(rows, col, i, w) ==
    IF i < w \/ \E j \in (i - w + 1)..i : ~IsNum(rows[j][col])
    THEN NaN
    ELSE SCALE * (CHOOSE v \in {rows[j][col] : j \in (i - w + 1)..i} :
                    \A j \in (i - w + 1)..i : v <= rows[j][col])

scaled(x) == IF IsNum(x) THEN SCALE * x ELSE NaN

\* The bar and the moving-average, volume-average and 60-row high/low
\* columns of row i.
enriched_row(rows, i) ==
    [Open     |-> scaled(rows[i].Open),
     High     |-> scaled(rows[i].High),
     Low      |-> scaled(rows[i].Low),
     Close    |-> scaled(rows[i].Close),
     Volume   |-> scaled(rows[i].Volume),
     MA5      |-> rolling_mean(rows, "Close", i, 5),
     MA10     |-> rolling_mean(rows, "Close", i, 10),
     MA20     |-> rolling_mean(rows, "Close", i, 20),
     MA60     |-> rolling_mean(rows, "Close", i, 60),
     Vol_MA5  |-> rolling_mean(rows, "Volume", i, 5),
     Vol_MA20 |-> rolling_mean(rows, "Volume", i, 20),
     Vol_MA60 |-> rolling_mean(rows, "Volume", i, 60),
     High_60  |-> rolling_max(rows, "High", i, 60),
     Low_60   |-> rolling_min(rows, "Low", i, 60)]

\* df['MA60'].diff() at row i: NaN on the first row and next to a NaN.
MA60_Slope(rows, i) ==
    IF i < 2 \/ ~IsNum(rolling_mean(rows, "Close", i, 60))
             \/ ~IsNum(rolling_mean(rows, "Close", i - 1, 60))
    THEN NaN
    ELSE rolling_mean(rows, "Close", i, 60)
         - rolling_mean(rows, "Close", i - 1, 60)

\* df['MA60_Slope'].rolling(3).min() > 0: a boolean column, False while one
\* of the last three slopes is NaN.
MA60_Rising(rows, i) ==
    /\ i >= 3
    /\ \A j \in (i - 2)..i : Gt(MA60_Slope(rows, j), 0)

\* (a.shift(1) <= b.shift(1)) & (a > b): False on the first row and
\* wherever a value is NaN.
crosses_above(a_prev, b_prev, a, b) == Le(a_prev, b_prev) /\ Gt(a, b)

Break_Price_MA5(rows, i) ==
    /\ i >= 2
    /\ crosses_above(scaled(rows[i - 1].Close),
                     rolling_mean(rows, "Close", i - 1, 5),
                     scaled(rows[i].Close), rolling_mean(rows, "Close", i, 5))

MA5_Break_MA10(rows, i) ==
    /\ i >= 2
    /\ crosses_above(rolling_mean(rows, "Close", i - 1, 5),
                     rolling_mean(rows, "Close", i - 1, 10),
                     rolling_mean(rows, "Close", i, 5),
                     rolling_mean(rows, "Close", i, 10))

MA5_Up(rows, i) ==
    /\ i >= 2
    /\ Gt(rolling_mean(rows, "Close", i, 5),
          rolling_mean(rows, "Close", i - 1, 5))

Vol_Up(rows, i) ==
    Gt(scaled(rows[i].Volume), rolling_mean(rows, "Volume", i, 5))

\* delta.where(delta > 0, 0) and -delta.where(delta < 0, 0) at row j: the
\* NaN difference of the first row is replaced by 0 as well.
gain_at(rows, j) ==
    IF j >= 2 /\ Gt(rows[j].Close, rows[j - 1].Close)
    THEN rows[j].Close - rows[j - 1].Close ELSE 0

loss_at(rows, j) ==
    IF j >= 2 /\ Lt(rows[j].Close, rows[j - 1].Close)
    THEN rows[j - 1].Close - rows[j].Close ELSE 0

\* The window of the RSI averages.
RSI_WINDOW == 14

\* 100 - 100 / (1 + gain / (loss + 1e-10)), both averages over RSI_WINDOW
\* rows, in whole points rounded down: 0 when the window has no gain, and
\* otherwise the largest integer below 100 * gain / (gain + loss), which the
\* 1e-10 of the denominator keeps the value under.
RSI(rows, i) ==
    IF i < RSI_WINDOW THEN NaN
    ELSE LET window == (i - RSI_WINDOW + 1)..i
             g == SumDefined([j \in 1..Len(rows) |-> gain_at(rows, j)], window)
             l == SumDefined([j \in 1..Len(rows) |-> loss_at(rows, j)], window)
         IN  IF g = 0 THEN 0 ELSE (100 * g - 1) \div (g + l)

\* The oscillator columns built on exponential averages (DIF, DEA, MACD_Hist,
\* K, D, J) are stored times OSC_SCALE, rounded down at every step of the
\* recursion.
OSC_SCALE == 600

\* The number of NaN entries of xs directly before position n.
RECURSIVE nan_run_before(_, _)
nan_run_before(xs, n) ==
    IF n <= 1 \/ IsNum(xs[n - 1]) THEN 0 ELSE 1 + nan_run_before(xs, n - 1)

\* Series.ewm(adjust=False).mean() with alpha = a / b (ignore_na=False), for
\* the first n values of xs: NaN while no value was seen, the first value
\* itself, and then (w * previous + alpha * x) / (w + alpha), where the weight
\* w of the previous average is (1 - alpha) ^ g, g - 1 being the number of
\* NaN entries since the last value (w = 1 - alpha without a gap).  A NaN
\* keeps the previous average.
RECURSIVE ewm_upto(_, _, _, _)
ewm_upto(xs, n, a, b) ==
    IF n = 0 THEN <<>>
    ELSE LET p    == ewm_upto(xs, n - 1, a, b)
             prev == IF n = 1 THEN NaN ELSE p[n - 1]
             g    == nan_run_before(xs, n) + 1
             old  == (b - a) ^ g
             new  == a * b ^ (g - 1)
         IN  Append(p, IF ~IsNum(xs[n]) THEN prev
                       ELSE IF ~IsNum(prev) THEN xs[n]
                       ELSE (old * prev + new * xs[n]) \div (old + new))

\* An average that stays NaN until s values exist.
ewm_span_min_periods(xs, s) ==
    [i \in 1..Len(xs) |->
        IF i < s THEN NaN ELSE ewm_upto(xs, Len(xs), 2, s + 1)[i]]

\* span=s is alpha = 2 / (s + 1); com=c is alpha = 1 / (1 + c).
ewm_span(xs, s) == ewm_upto(xs, Len(xs), 2, s + 1)
ewm_com(xs, c)  == ewm_upto(xs, Len(xs), 1, 1 + c)

minus(xs, ys) ==
    [i \in 1..Len(xs) |->
        IF IsNum(xs[i]) /\ IsNum(ys[i]) THEN xs[i] - ys[i] ELSE NaN]

\* DIF = ema12 - ema26, DEA = DIF.ewm(span=9), MACD_Hist = DIF - DEA.
macd_columns(rows) ==
    LET close == [i \in 1..Len(rows) |->
                     IF IsNum(rows[i].Close) THEN OSC_SCALE * rows[i].Close
                     ELSE NaN]
        DIF   == minus(ewm_span(close, 12), ewm_span(close, 26))
        DEA   == ewm_span(DIF, 9)
    IN  [DIF |-> DIF, DEA |-> DEA, MACD_Hist |-> minus(DIF, DEA)]

\* The quotient (Close - low_min) / 1e-10 * 100 of a bar whose close differs
\* from a 9-row range of zero width is of the order 1e12; it is stored as
\* this value with the sign of the difference.
RSV_SATURATED == 100000000

\* The window of the K/D/J range.
KDJ_WINDOW == 9

\* (Close - low_min) / (high_max - low_min + 1e-10) * 100 at row i.
rsv(rows, i) ==
    LET lo == rolling_min(rows, "Low", i, KDJ_WINDOW)
        hi == rolling_max(rows, "High", i, KDJ_WINDOW)
        c  == scaled(rows[i].Close)
    IN  IF ~IsNum(lo) \/ ~IsNum(hi) \/ ~IsNum(c) THEN NaN
        ELSE IF hi # lo THEN (100 * OSC_SCALE * (c - lo)) \div (hi - lo)
        ELSE IF c = lo THEN 0
        ELSE IF c > lo THEN RSV_SATURATED ELSE -RSV_SATURATED

\* K = rsv.ewm(com=2), D = K.ewm(com=2), J = 3 * K - 2 * D.
kdj_columns(rows) ==
    LET K == ewm_com([i \in 1..Len(rows) |-> rsv(rows, i)], 2)
        D == ewm_com(K, 2)
    IN  [K |-> K, D |-> D,
         J |-> [i \in 1..Len(rows) |->
                   IF IsNum(K[i]) /\ IsNum(D[i]) THEN 3 * K[i] - 2 * D[i]
                   ELSE NaN]]

\* if df.empty or len(df) < 30: return None.  On None itself df.empty raises
\* AttributeError.  Otherwise every row of the input gets every column.
_process_indicators(d) ==
    IF d.none THEN [outcome |-> "raise", rows |-> <<>>]
    ELSE IF Len(d.rows) < MIN_ROWS THEN [outcome |-> "None", rows |-> <<>>]
    ELSE LET macd == macd_columns(d.rows)
             kdj  == kdj_columns(d.rows)
         IN  [outcome |-> "df",
              rows |-> [i \in 1..Len(d.rows) |->
                  enriched_row(d.rows, i) @@
                  [MA60_Slope      |-> MA60_Slope(d.rows, i),
                   MA60_Rising     |-> MA60_Rising(d.rows, i),
                   Break_Price_MA5 |-> Break_Price_MA5(d.rows, i),
                   MA5_Break_MA10  |-> MA5_Break_MA10(d.rows, i),
                   MA5_Up          |-> MA5_Up(d.rows, i),
                   Vol_Up          |-> Vol_Up(d.rows, i),
                   RSI             |-> RSI(d.rows, i),
                   DIF             |-> macd.DIF[i],
                   DEA             |-> macd.DEA[i],
                   MACD_Hist       |-> macd.MACD_Hist[i],
                   MACD            |-> macd.DIF[i],
                   MACD_Signal     |-> macd.DEA[i],
                   K               |-> kdj.K[i],
                   D               |-> kdj.D[i],
                   J               |-> kdj.J[i]]]]

----------------------------------------------------------------------------
(* The tables explored *)

Regimes == {"BULL", "NEUTRAL", "BEAR", "UNKNOWN"}
Modes   == {"Trend", "Pullback", "NoTrade"}

CloseVals    == {95, 100, 102, 106, 125, 126}
MA20Vals     == {NaN, 99, 100, 124}
MA60Vals     == {NaN, 100}
HistMA60Vals == {NaN, 99, 100, 101}
VolVals      == {79, 80, 150}
Candles      == {"bull", "bear_long_shadow", "bear_short_shadow", "flat"}
Signals      == {"none", "rsi", "kd_cross", "kd_flat"}

\* The last row.
CurrRow(c, ma20, ma60, vol, vma, candle, sig) ==
    [Open   |-> CASE candle = "bull" -> c - 1
                  [] candle = "flat" -> c
                  [] OTHER -> c + 1,
     High   |-> CASE candle = "bear_short_shadow" -> c + 3
                  [] candle = "flat" -> c
                  [] OTHER -> c + 1,
     Low    |-> CASE candle = "bull" -> c - 2
                  [] candle = "bear_long_shadow" -> c - 3
                  [] candle = "flat" -> c
                  [] OTHER -> c - 1,
     Close  |-> c,
     Volume |-> vol,
     MA10   |-> IF sig = "kd_cross" THEN c ELSE NaN,
     MA20   |-> ma20,
     MA60   |-> ma60,
     Vol_MA20 |-> vma,
     RSI    |-> CASE sig = "rsi" -> 50 [] sig = "kd_cross" -> 70
                  [] sig = "kd_flat" -> 40 [] OTHER -> NaN,
     K      |-> IF sig \in {"kd_cross", "kd_flat"} THEN 60 ELSE NaN,
     D      |-> IF sig \in {"kd_cross", "kd_flat"} THEN 50 ELSE NaN]

\* A row of the history: close h, high h + 10, low h - 10.
HistRow(h, m0, sig, isPrev) ==
    [Open |-> h, High |-> h + 10, Low |-> h - 10, Close |-> h, Volume |-> 100,
     MA10 |-> h, MA20 |-> h, MA60 |-> m0, Vol_MA20 |-> 100, RSI |-> 50,
     K    |-> IF ~isPrev THEN 50
              ELSE CASE sig = "kd_cross" -> 40 [] sig = "kd_flat" -> 60 [] OTHER -> NaN,
     D    |-> IF isPrev /\ sig = "none" THEN NaN ELSE 50]

\* The row just before the prior-10 window: extreme values that no window
\* statistic and no slope may read.
OutlierRow(m0) ==
    [Open |-> 1, High |-> 1000, Low |-> 1, Close |-> 1, Volume |-> 100,
     MA10 |-> 1, MA20 |-> 1, MA60 |-> IF IsNum(m0) THEN 1 ELSE NaN,
     Vol_MA20 |-> 100, RSI |-> 50, K |-> 50, D |-> 50]

MkDf(n, c, ma20, ma60, m0, h, vol, vma, candle, sig) ==
    [none |-> FALSE,
     rows |-> [i \in 1..n |->
                 IF i = n THEN CurrRow(c, ma20, ma60, vol, vma, candle, sig)
                 ELSE IF i = n - (PRIOR_N + 1) THEN OutlierRow(m0)
                 ELSE HistRow(h, m0, sig, i = n - 1)]]

\* Tables of exactly MIN_ROWS rows with MA60 and Vol_MA20 defined and positive
\* on the last row: every combination of the other values.
CoreDfs ==
    {MkDf(MIN_ROWS, c, ma20, 100, m0, h, vol, 100, candle, sig) :
        c \in CloseVals, ma20 \in MA20Vals, m0 \in HistMA60Vals,
        h \in {80, 100}, vol \in VolVals, candle \in Candles, sig \in Signals}

\* Longer tables, tables whose MA60 is undefined on the last row, tables whose
\* Vol_MA20 is zero or undefined, and a history above today's close (with
\* h = 110 a close of 102 or 106 is below the prior closes but not below the
\* prior lows).
EdgeDfs ==
    {MkDf(n, c, ma20, ma60, m0, h, 150, vma, "bull", "rsi") :
        n \in MIN_ROWS..(MIN_ROWS + MaxExtraRows),
        c \in CloseVals, ma20 \in MA20Vals, ma60 \in MA60Vals,
        m0 \in HistMA60Vals, h \in {100, 110, 120}, vma \in {NaN, 0, 100}}

\* Tables below MIN_ROWS rows (the empty one included), and None.
ShortDfs ==
    {MkDf(n, c, 100, 100, 99, 80, 150, 100, "bull", "rsi") :
        n \in {0, 1, PRIOR_N + 1, MIN_ROWS - 1}, c \in CloseVals}
    \cup {[none |-> TRUE, rows |-> <<>>]}

\* A row the download delivered without values.
MissingRow(r) ==
    [r EXCEPT !.Open = NaN, !.High = NaN, !.Low = NaN, !.Close = NaN,
              !.Volume = NaN]

\* Tables with one missing row inside the series.
GapDfs ==
    {[d EXCEPT !.rows[g] = MissingRow(@)] :
        d \in {MkDf(n, 102, 100, 100, 99, 80, 150, 100, "bull", "rsi") :
                  n \in {MIN_ROWS, LONG_WINDOW + MaxLongExtraRows}},
        g \in {3, 15}}

\* Tables of every length up to MIN_ROWS + MaxExtraRows, tables around the
\* length of the longest window, tables with a missing row, and None.
PipelineDfs ==
    GapDfs \cup
    {MkDf(n, c, 100, 100, 99, 80, 150, 100, "bull", "rsi") :
        n \in (0..(MIN_ROWS + MaxExtraRows))
              \cup ((LONG_WINDOW - 1)..(LONG_WINDOW + MaxLongExtraRows)),
        c \in CloseVals}
    \cup {[none |-> TRUE, rows |-> <<>>]}

\* Tables whose MA60 is defined on the last row and on the k rows before it
\* only (a series a little longer than the 60-day window): k + 1 defined
\* values, k < SLOPE_TAIL defined differences, all rising.
PartialDf(k, c, ma20) ==
    LET d == MkDf(MIN_ROWS, c, ma20, 100, NaN, 100, 150, 100, "bull", "rsi")
    IN  [d EXCEPT !.rows =
            [i \in 1..MIN_ROWS |->
                IF i >= MIN_ROWS - k /\ i < MIN_ROWS
                THEN [d.rows[i] EXCEPT !.MA60 = 99]
                ELSE d.rows[i]]]

PartialDfs ==
    {PartialDf(k, c, ma20) :
        k \in {1, SLOPE_TAIL - 1}, c \in CloseVals, ma20 \in MA20Vals}

Dfs == CoreDfs \cup EdgeDfs \cup ShortDfs \cup PartialDfs

----------------------------------------------------------------------------
(* The calls *)

NoCall == [fn |-> "none", market_regime |-> "-", strategy_mode |-> "-"]
NoRet  == [pending |-> TRUE]

\* No flow table and no fundamentals: the decision layers read neither.
NoChips == [none |-> TRUE, columns |-> {}, rows |-> <<>>]
NoInfo  == [none |-> TRUE]

\* st.session_state of a fresh session, with the keys this model follows: a
\* key that is absent reads as the empty list, and as NoEvent for the
\* last_chip_switch_<stock_id> keys.
NoEvent == [stock_id |-> "-", type |-> "-", prev |-> 0, last |-> 0, date |-> 0]
StockIds == {"2330.TW", "2317.TW"}
NoSession ==
    [chip_switch_history |-> <<>>,
     last_chip_switch    |-> [sid \in StockIds |-> NoEvent],
     holdings            |-> <<>>,
     history             |-> <<>>]

Init ==
    /\ df \in Dfs
    /\ aligned_chips = NoChips
    /\ info = NoInfo
    /\ call = NoCall
    /\ ret = NoRet
    /\ warnings = 0
    /\ session_state = NoSession

CallProcessIndicators ==
    /\ call = NoCall
    /\ call' = [NoCall EXCEPT !.fn = "_process_indicators"]
    /\ ret' = _process_indicators(df)
    /\ UNCHANGED <<session_state, df, aligned_chips, info, warnings>>

CallGate ==
    /\ call = NoCall
    /\ call' = [NoCall EXCEPT !.fn = "market_regime_gate"]
    /\ ret' = market_regime_gate(df)
    /\ UNCHANGED <<session_state, df, aligned_chips, info, warnings>>

CallSelect ==
    /\ call = NoCall
    /\ \E r \in Regimes :
        /\ call' = [NoCall EXCEPT !.fn = "select_strategy_mode", !.market_regime = r]
        /\ ret' = select_strategy_mode(df, r)
    /\ UNCHANGED <<session_state, df, aligned_chips, info, warnings>>

CallEvaluate ==
    /\ call = NoCall
    /\ \E r \in Regimes, m \in Modes :
        /\ call' = [fn |-> "evaluate_stock", market_regime |-> r, strategy_mode |-> m]
        /\ ret' = evaluate_stock(df, r, m)
        /\ warnings' = IF evaluate_stock_run(df, r, m).corrected
                       THEN warnings + 1 ELSE warnings
    /\ UNCHANGED <<session_state, df, aligned_chips, info>>

CallEngine ==
    /\ call = NoCall
    /\ call' = [NoCall EXCEPT !.fn = "strategy_engine"]
    /\ ret' = strategy_engine(df)
    /\ warnings' = IF strategy_engine_warns(df) THEN warnings + 1 ELSE warnings
    /\ UNCHANGED <<session_state, df, aligned_chips, info>>

\* The three layers and the engine, each called once on a table.
Next ==
    \/ CallGate
    \/ CallSelect
    \/ CallEvaluate
    \/ CallEngine

Spec == Init /\ [][Next]_vars

\* The pipeline and the layers on tables around the MIN_ROWS boundary.
InitPipeline ==
    /\ df \in PipelineDfs
    /\ aligned_chips = NoChips
    /\ info = NoInfo
    /\ call = NoCall
    /\ ret = NoRet
    /\ warnings = 0
    /\ session_state = NoSession

NextPipeline ==
    \/ CallProcessIndicators
    \/ Next

SpecPipeline == InitPipeline /\ [][NextPipeline]_vars

----------------------------------------------------------------------------
(* detect_chip_switch *)

(* A flow table is [none, columns, rows]: columns is the set of column names
   the table has, rows the sequence of [Net_Buy, Chip_MA5] records, oldest
   first.  The kinds the function reports are written sell_to_buy,
   buy_to_sell, sell_to_buy(MA), buy_to_sell(MA). *)

\* series.dropna(): the positions of the defined entries of a column.
dropna(t, col) == {i \in 1..Len(t.rows) : IsNum(t.rows[i][col])}

\* s.iloc[-1] and s.iloc[-2] of a dropna()'d column with at least two entries.
iloc_last(t, col) ==
    LET S == dropna(t, col)
    IN  t.rows[CHOOSE i \in S : \A j \in S : j <= i][col]

iloc_prev(t, col) ==
    LET S    == dropna(t, col)
        last == CHOOSE i \in S : \A j \in S : j <= i
    IN  t.rows[CHOOSE i \in S \ {last} : \A j \in S \ {last} : j <= i][col]

\* return None, and an exception leaving the try block.
ReturnNone == [outcome |-> "None"]
Raised     == [outcome |-> "raise"]

\* Mutant of sign_switch: prev < 0 and prev > 0 where the code has <= and >=.
sign_switch_strict(prev_val, last_val, buy_kind, sell_kind) ==
    IF prev_val < 0 /\ last_val > 0
    THEN [outcome |-> "tuple", kind |-> buy_kind, prev_val |-> prev_val, last_val |-> last_val]
    ELSE IF prev_val > 0 /\ last_val < 0
    THEN [outcome |-> "tuple", kind |-> sell_kind, prev_val |-> prev_val, last_val |-> last_val]
    ELSE ReturnNone

\* The two sign tests on (prev, last), the same on the raw and the MA series.
sign_switch(prev_val, last_val, buy_kind, sell_kind) ==
    IF prev_val <= 0 /\ last_val > 0
    THEN [outcome |-> "tuple", kind |-> buy_kind, prev_val |-> prev_val, last_val |-> last_val]
    ELSE IF prev_val >= 0 /\ last_val < 0
    THEN [outcome |-> "tuple", kind |-> sell_kind, prev_val |-> prev_val, last_val |-> last_val]
    ELSE ReturnNone

\* The Net_Buy block: a report, or ReturnNone when control leaves the block.
raw_switch(t) ==
    IF Cardinality(dropna(t, "Net_Buy")) >= 2
    THEN sign_switch(iloc_prev(t, "Net_Buy"), iloc_last(t, "Net_Buy"),
                     "sell_to_buy", "buy_to_sell")
    ELSE ReturnNone

\* The Chip_MA5 block.
ma_switch(t) ==
    IF Cardinality(dropna(t, "Chip_MA5")) >= 2
    THEN sign_switch(iloc_prev(t, "Chip_MA5"), iloc_last(t, "Chip_MA5"),
                     "sell_to_buy(MA)", "buy_to_sell(MA)")
    ELSE ReturnNone

\* The try block of detect_chip_switch.  Reading a column the table does not
\* have raises KeyError.
detect_chip_switch_try(t) ==
    IF t.none \/ Len(t.rows) = 0 \/ t.columns = {} THEN ReturnNone
    ELSE IF "Net_Buy" \notin t.columns THEN Raised
    ELSE IF raw_switch(t) # ReturnNone THEN raw_switch(t)
    ELSE IF "Chip_MA5" \notin t.columns THEN Raised
    ELSE ma_switch(t)

\* Mutant of except_return_None: the exception propagates.
except_propagates(r) == r

\* except Exception: return None
except_return_None(r) == IF r.outcome = "raise" THEN ReturnNone ELSE r

detect_chip_switch(t) == except_return_None(detect_chip_switch_try(t))

\* rolling(5) of Chip_MA5.
CHIP_MA_WINDOW == 5

\* Lengths of the flow tables.
MaxChipRows  == 6
MaxAlignedRows == 3

NetBuyVals == {-10, 0, 5}

\* ChipProvider.get_foreign_data: Net_Buy defined on every row and
\* Chip_MA5 = Net_Buy.rolling(5).mean() (the values are multiples of 5, so
\* the mean is an integer).
ChipFrame(net) ==
    [none |-> FALSE, columns |-> {"Net_Buy", "Chip_MA5"},
     rows |-> [i \in 1..Len(net) |->
                 [Net_Buy  |-> net[i],
                  Chip_MA5 |-> IF i < CHIP_MA_WINDOW THEN NaN
                               ELSE SumDefined(net, (i - CHIP_MA_WINDOW + 1) .. i)
                                      \div CHIP_MA_WINDOW]]]

ProviderChips ==
    {ChipFrame(net) : net \in UNION {[1..n -> NetBuyVals] : n \in 0..MaxChipRows}}

\* Tables after reindexing to other dates: any mix of defined and undefined
\* entries in both columns.
AlignedChips ==
    {[none |-> FALSE, columns |-> {"Net_Buy", "Chip_MA5"}, rows |-> r] :
        r \in UNION {[1..n -> [Net_Buy : {NaN, -1, 0, 1}, Chip_MA5 : {NaN, -1, 1}]] :
                        n \in 1..MaxAlignedRows}}

\* None, a table without columns, and tables that lack one of the columns.
BrokenChips ==
    {NoChips}
    \cup {[none |-> FALSE, columns |-> c,
           rows |-> [i \in 1..2 |-> [Net_Buy |-> IF i = 1 THEN -1 ELSE last, Chip_MA5 |-> NaN]]] :
            c \in {{}, {"Net_Buy"}, {"Chip_MA5"}}, last \in {-1, 1}}

ChipDfs == ProviderChips \cup AlignedChips \cup BrokenChips

CallDetectChipSwitch ==
    /\ call = NoCall
    /\ call' = [NoCall EXCEPT !.fn = "detect_chip_switch"]
    /\ ret' = detect_chip_switch(aligned_chips)
    /\ UNCHANGED <<session_state, df, aligned_chips, info, warnings>>

InitChips ==
    /\ df = [none |-> TRUE, rows |-> <<>>]
    /\ aligned_chips \in ChipDfs
    /\ info = NoInfo
    /\ call = NoCall
    /\ ret = NoRet
    /\ warnings = 0
    /\ session_state = NoSession

NextChips == CallDetectChipSwitch

SpecChips == InitChips /\ [][NextChips]_vars

----------------------------------------------------------------------------
(* Fundamentals (ticker.info) *)

(* info is [fetch, trailingPE, pegRatio, earningsGrowth, trailingEps,
   revenueGrowth].  fetch tells what the data provider did: "ok",
   "info_raises" (reading ticker.info raised) or "ticker_raises" (yf.Ticker
   raised).  A key holds a number, PyNone (the key is present with value
   None) or Absent (the key is missing).  trailingPE is in units of 1,
   pegRatio in tenths, earningsGrowth and revenueGrowth in hundredths. *)

\* A key that the dict does not have, Python's None, and float('inf').
Absent == -2000000
PyNone == -3000000
Inf    == 1000000

InfoKeys == {"trailingPE", "pegRatio", "earningsGrowth", "trailingEps", "revenueGrowth"}

\* info = {}
EmptyInfo == [k \in InfoKeys |-> Absent]

\* try: info = ticker.info / except: info = {}
ticker_info(i) == IF i.fetch = "ok" THEN [k \in InfoKeys |-> i[k]] ELSE EmptyInfo

\* info.get(key, default)
info_get(i, key, default) == IF i[key] = Absent THEN default ELSE i[key]

\* pe = info.get('trailingPE', float('inf')); if pe is None: pe = float('inf')
pe_of(i) ==
    LET pe == info_get(i, "trailingPE", Inf)
    IN  IF pe = PyNone THEN Inf ELSE pe

MkInfo(fetch, pe, peg, eg, eps, rg) ==
    [fetch |-> fetch, trailingPE |-> pe, pegRatio |-> peg, earningsGrowth |-> eg,
     trailingEps |-> eps, revenueGrowth |-> rg]

----------------------------------------------------------------------------
(* ma5_breakout_ma20_filter *)

\* Mutant of ma5_cross: MA5 strictly below MA20 on the previous row.
ma5_cross_strict(ma5_prev, ma20_prev, ma5_curr, ma20_curr) ==
    (ma5_prev < ma20_prev) /\ (ma5_curr > ma20_curr)

\* condition2 = (ma5_prev <= ma20_prev) and (ma5_curr > ma20_curr)
ma5_cross(ma5_prev, ma20_prev, ma5_curr, ma20_curr) ==
    (ma5_prev <= ma20_prev) /\ (ma5_curr > ma20_curr)

\* The try block of ma5_breakout_ma20_filter on the table d (pre_fetched_df,
\* or what fetch_data returned) and the fundamentals i.
ma5_breakout_ma20_filter_try(d, i) ==
    IF i.fetch = "ticker_raises" THEN Raised
    ELSE IF d.none \/ Len(d.rows) < 2 THEN ReturnNone
    ELSE
      LET curr      == d.rows[Len(d.rows)]
          prev      == d.rows[Len(d.rows) - 1]
          close     == curr.Close
          ma5_curr  == curr.MA5
          ma5_prev  == prev.MA5
          ma20_curr == curr.MA20
          ma20_prev == prev.MA20
      IN  IF ~IsNum(ma5_curr) \/ ~IsNum(ma5_prev) \/ ~IsNum(ma20_curr) \/ ~IsNum(ma20_prev)
          THEN ReturnNone
          ELSE IF Gt(close, ma5_curr) /\ ma5_cross(ma5_prev, ma20_prev, ma5_curr, ma20_curr)
          THEN [outcome |-> "dict", close |-> close, ma5 |-> ma5_curr,
                ma20 |-> ma20_curr, pe |-> pe_of(ticker_info(i)), rsi |-> curr.RSI]
          ELSE ReturnNone

ma5_breakout_ma20_filter(d, i) ==
    except_return_None(ma5_breakout_ma20_filter_try(d, i))

\* Longest table of the filter's family.
MaxFilterRows == 3

FilterRow(c, ma5, ma10, ma20) ==
    [Close |-> c, MA5 |-> ma5, MA10 |-> ma10, MA20 |-> ma20, RSI |-> 50]

\* Tables of 2 .. MaxFilterRows rows: every combination of the averages on the
\* last two rows, around a cross of MA10 and a cross of MA20.
CrossDfs ==
    {[none |-> FALSE,
      rows |-> [j \in 1..n |->
                  IF j = n THEN FilterRow(c, a1, b1, c1)
                  ELSE IF j = n - 1 THEN FilterRow(100, a0, 100, c0)
                  ELSE FilterRow(100, NaN, NaN, NaN)]] :
        n \in 2..MaxFilterRows,
        c \in {NaN, 102, 103, 105}, a0 \in {NaN, 98, 100, 102}, c0 \in {NaN, 100},
        a1 \in {NaN, 102, 104}, b1 \in {101, 103}, c1 \in {NaN, 101, 103}}

FilterDfs ==
    CrossDfs
    \cup {[none |-> FALSE, rows |-> [j \in 1..n |-> FilterRow(105, 102, 100, 100)]] : n \in 0..1}
    \cup {[none |-> TRUE, rows |-> <<>>]}

FilterInfos ==
    {MkInfo(f, pe, Absent, Absent, Absent, Absent) :
        f \in {"ok", "info_raises"}, pe \in {Absent, PyNone, 15}}
    \cup {MkInfo("ticker_raises", 15, Absent, Absent, Absent, Absent)}

CallMa5Filter ==
    /\ call = NoCall
    /\ call' = [NoCall EXCEPT !.fn = "ma5_breakout_ma20_filter"]
    /\ ret' = ma5_breakout_ma20_filter(df, info)
    /\ UNCHANGED <<session_state, df, aligned_chips, info, warnings>>

InitFilter ==
    /\ df \in FilterDfs
    /\ aligned_chips = NoChips
    /\ info \in FilterInfos
    /\ call = NoCall
    /\ ret = NoRet
    /\ warnings = 0
    /\ session_state = NoSession

NextFilter == CallMa5Filter

SpecFilter == InitFilter /\ [][NextFilter]_vars

----------------------------------------------------------------------------
(* analyze_stock *)

(* The composite scorer reads the last two rows of the enriched table, which
   carries, beside the columns of the layers, MA60_Rising (a boolean),
   MACD_Hist and High_60.  Points are counted in halves (a full point is 2).
   vol_ratio divides by Vol_MA20: when that is 0 the division either raises
   ZeroDivisionError (Python floats) or gives inf / nan (numpy floats),
   depending on how pandas boxes the row; zero_div names the outcome. *)

ZeroDivOutcomes == {"raise", "inf"}

\* (score / 10) * 100 in binary floating point, for score = halves / 2: the
\* product is the exact value 5 * halves except at 5.5 and at 11 points, where
\* it is one unit in the last place above (55.00000000000001,
\* 110.00000000000001).  whole is the exact value, ulps the excess.
final_score(halves) ==
    [whole |-> 5 * halves, ulps |-> IF halves \in {11, 22} THEN 1 ELSE 0]

\* Mutant of check: the tag is appended whether or not the check passed.
check_always_tags(cond, halves, tag) ==
    [halves |-> IF cond THEN halves ELSE 0, tags |-> <<tag>>]

\* One check of the scorer: its points (in halves) and its reason tag.
check(cond, halves, tag) ==
    [halves |-> IF cond THEN halves ELSE 0, tags |-> IF cond THEN <<tag>> ELSE <<>>]

\* The try block of analyze_stock: d is what fetch_data returned, i the
\* fundamentals, chips what get_foreign_data returns.
analyze_stock_try(d, i, include_chips, chips, zero_div) ==
    IF i.fetch = "ticker_raises" THEN Raised
    ELSE IF d.none THEN ReturnNone
    ELSE IF Len(d.rows) < 2 THEN Raised
    ELSE
      LET inf  == ticker_info(i)
          curr == d.rows[Len(d.rows)]
          prev == d.rows[Len(d.rows) - 1]
          pe   == pe_of(inf)
          peg  == info_get(inf, "pegRatio", Inf)
          earnings_growth == info_get(inf, "earningsGrowth", PyNone)
          eg_ok == earnings_growth # PyNone /\ earnings_growth > 10
          eps  == info_get(inf, "trailingEps", 0)
          revenue_growth == info_get(inf, "revenueGrowth", 0)
          checks ==
            << check(pe < 25, 2, "PE<25"),
               check(peg # PyNone /\ peg <= 12, 2, "PEG"),
               check(eg_ok, 2, "EPS_GROWTH"),
               [halves |-> IF ~eg_ok /\ eps # PyNone /\ eps > 0 THEN 1 ELSE 0, tags |-> <<>>],
               check(revenue_growth # PyNone /\ revenue_growth > 10, 2, "REVENUE_GROWTH"),
               check(Gt(curr.MA20, curr.MA60), 2, "MA_BULL"),
               check(Gt(curr.Close, curr.MA60), 2, "ABOVE_MA60"),
               check(curr.MA60_Rising, 2, "MA60_RISING"),
               check(Lt(prev.RSI, 40) /\ Ge(curr.RSI, 40), 2, "RSI_UP"),
               check(Gt(curr.MACD_Hist, 0) /\ Gt(curr.MACD_Hist, prev.MACD_Hist), 2, "MACD_UP"),
               check(Gt(curr.Close, curr.High_60), 2, "BREAK_HIGH"),
               check(/\ IsNum(curr.Volume) /\ IsNum(curr.Vol_MA20)
                     /\ IF curr.Vol_MA20 = 0 THEN curr.Volume > 0
                        ELSE 10 * curr.Volume >= 13 * curr.Vol_MA20,
                     2, "VOLUME") >>
          halves == checks[1].halves + checks[2].halves + checks[3].halves
                    + checks[4].halves + checks[5].halves + checks[6].halves
                    + checks[7].halves + checks[8].halves + checks[9].halves
                    + checks[10].halves + checks[11].halves + checks[12].halves
          passed_reasons ==
                    checks[1].tags \o checks[2].tags \o checks[3].tags
                    \o checks[5].tags \o checks[6].tags \o checks[7].tags
                    \o checks[8].tags \o checks[9].tags \o checks[10].tags
                    \o checks[11].tags \o checks[12].tags
      IN  IF ~eg_ok /\ eps = PyNone THEN Raised
          ELSE IF revenue_growth = PyNone THEN Raised
          ELSE IF curr.Vol_MA20 = 0 /\ zero_div = "raise" THEN Raised
          ELSE [outcome |-> "result", halves |-> halves, score |-> final_score(halves),
                reasons |-> passed_reasons,
                fundamentals |-> [PE |-> pe, EPS |-> eps, PEG |-> peg,
                                  Growth |-> earnings_growth, Close |-> curr.Close],
                chips_df |-> IF include_chips THEN chips ELSE NoChips]

analyze_stock(d, i, include_chips, chips, zero_div) ==
    except_return_None(analyze_stock_try(d, i, include_chips, chips, zero_div))

----------------------------------------------------------------------------
(* advanced_quant_filter *)

\* if vol_ma20 < 1000000: return None
LIQUIDITY_MIN == 1000000

\* The try block of advanced_quant_filter.
advanced_quant_filter_try(d, i) ==
    IF i.fetch = "ticker_raises" THEN Raised
    ELSE IF d.none THEN ReturnNone
    ELSE IF Len(d.rows) = 0 THEN Raised
    ELSE
      LET curr  == d.rows[Len(d.rows)]
          strat == strategy_engine(d)
          inf   == ticker_info(i)
          peg   == info_get(inf, "pegRatio", Inf)
      IN  IF Lt(curr.Vol_MA20, LIQUIDITY_MIN) THEN ReturnNone
          ELSE [outcome |-> "dict", close |-> curr.Close, pe |-> pe_of(inf),
                rsi |-> curr.RSI,
                status |-> signal_of(strat.watch, strat.buy),
                reasons |-> strat.reason, watch |-> strat.watch, buy |-> strat.buy,
                market_regime |-> strat.market_regime, mode |-> strat.mode,
                confidence |-> strat.confidence]

advanced_quant_filter(d, i) == except_return_None(advanced_quant_filter_try(d, i))

\* Whether the call reaches strategy_engine and that call logs a warning.
advanced_quant_filter_warns(d, i) ==
    /\ i.fetch # "ticker_raises" /\ ~d.none /\ Len(d.rows) > 0
    /\ ~Lt(d.rows[Len(d.rows)].Vol_MA20, LIQUIDITY_MIN)
    /\ strategy_engine_warns(d)

----------------------------------------------------------------------------
(* The entry points on the tables of a scan *)

\* d with the scorer's columns on every row, and the RSI of the row before
\* the last.
ScanDf(d, rising, hist_prev, hist_curr, high_60, rsi_prev) ==
    [none |-> FALSE,
     rows |-> [j \in 1..Len(d.rows) |->
                 [MA5 |-> d.rows[j].MA10,
                  MA60_Rising |-> rising,
                  MACD_Hist |-> IF j = Len(d.rows) THEN hist_curr ELSE hist_prev,
                  High_60 |-> IF high_60 THEN d.rows[j].High ELSE NaN,
                  RSI |-> IF j = Len(d.rows) - 1 THEN rsi_prev ELSE d.rows[j].RSI]
                 @@ d.rows[j]]]

\* Enriched tables of MIN_ROWS rows: Vol_MA20 below and at LIQUIDITY_MIN, zero
\* and undefined; MA20 and MA60 defined or not (a series shorter than the
\* 60-day window has MA60 and High_60 undefined).
ScanDfs ==
    {ScanDf(MkDf(MIN_ROWS, c, ma20, ma60, 99, 100, v[1], v[2], "bull", "rsi"),
            rising, h[1], h[2], ma60 # NaN, rsi_prev) :
        c \in {100, 102}, ma20 \in {NaN, 100}, ma60 \in MA60Vals,
        v \in {<<150, 100>>, <<1300000, LIQUIDITY_MIN>>, <<1200000, LIQUIDITY_MIN>>,
               <<100, 0>>, <<0, 0>>, <<100, NaN>>},
        rising \in BOOLEAN, h \in {<<1, 2>>, <<2, 1>>, <<NaN, NaN>>},
        rsi_prev \in {39, 50}}

\* A table, as the data provider may deliver it, whose last bar closes above
\* its own high (102 over 101) after a history of highs of 90: the 60-day
\* high of the last row, 101, is below the close.
BadBarDf ==
    LET d == ScanDf(MkDf(MIN_ROWS, 102, 101, 100, 99, 80, 1300000, LIQUIDITY_MIN, "bull", "rsi"),
                    TRUE, 1, 2, TRUE, 39)
    IN  [d EXCEPT !.rows[MIN_ROWS] = [@ EXCEPT !.High = 101, !.High_60 = 101]]

\* A liquid table that scores on every technical check but the 60-day high,
\* tables of 0, 1 and 2 rows, and None.
FewDfs ==
    {ScanDf(MkDf(n, 102, 101, 100, 99, 100, 1300000, LIQUIDITY_MIN, "bull", "rsi"),
            TRUE, 1, 2, TRUE, 39) : n \in {0, 1, 2, MIN_ROWS}}
    \cup {[none |-> TRUE, rows |-> <<>>]}
    \cup {BadBarDf}

ScorerInfos ==
    {MkInfo(f, pe, peg, eg, eps, rg) :
        f \in {"ok"}, pe \in {Absent, PyNone, 24, 25}, peg \in {Absent, PyNone, 12, 13},
        eg \in {Absent, PyNone, 10, 11}, eps \in {Absent, PyNone, 0, 1},
        rg \in {Absent, PyNone, 10, 11}}

FewInfos ==
    {MkInfo(f, 24, 12, eg, 1, 11) :
        f \in {"ok", "info_raises", "ticker_raises"}, eg \in {PyNone, 11}}

FewChips ==
    BrokenChips \cup {ChipFrame(<<-10, 0, 0, 0, 5, 5>>), ChipFrame(<<-10, 5>>)}

CallAnalyzeStock ==
    /\ call = NoCall
    /\ \E include_chips \in BOOLEAN, zero_div \in ZeroDivOutcomes :
        /\ call' = [fn |-> "analyze_stock", market_regime |-> "-", strategy_mode |-> "-",
                    include_chips |-> include_chips, zero_div |-> zero_div]
        /\ ret' = analyze_stock(df, info, include_chips, aligned_chips, zero_div)
    /\ UNCHANGED <<session_state, df, aligned_chips, info, warnings>>

CallAdvancedQuantFilter ==
    /\ call = NoCall
    /\ call' = [NoCall EXCEPT !.fn = "advanced_quant_filter"]
    /\ ret' = advanced_quant_filter(df, info)
    /\ warnings' = IF advanced_quant_filter_warns(df, info) THEN warnings + 1 ELSE warnings
    /\ UNCHANGED <<session_state, df, aligned_chips, info>>

InitEntry ==
    /\ \/ df \in ScanDfs /\ info \in FewInfos /\ aligned_chips = NoChips
       \/ df \in FewDfs /\ info \in ScorerInfos /\ aligned_chips = NoChips
       \/ df \in FewDfs /\ info \in FewInfos /\ aligned_chips \in FewChips
    /\ call = NoCall
    /\ ret = NoRet
    /\ warnings = 0
    /\ session_state = NoSession

NextEntry ==
    \/ CallEngine
    \/ CallAnalyzeStock
    \/ CallAdvancedQuantFilter
    \/ CallMa5Filter
    \/ CallDetectChipSwitch

SpecEntry == InitEntry /\ [][NextEntry]_vars

----------------------------------------------------------------------------
(* TechProvider.fetch_data and the scorer on downloaded bars *)

\* What yf.download delivered is a frame of bars (never None):
\* if df.empty or len(df) < MIN_REQUIRED_ROWS: return None, and otherwise the
\* enriched series of _process_indicators.
fetch_data(bars) ==
    IF Len(bars.rows) = 0 \/ Len(bars.rows) < MIN_ROWS
    THEN [none |-> TRUE, rows |-> <<>>]
    ELSE [none |-> FALSE, rows |-> _process_indicators(bars).rows]

\* A bar with close c, a high wick above it and a low one point below it.
Bar(c, wick, vol) ==
    [Open |-> c, High |-> c + wick, Low |-> c - 1, Close |-> c, Volume |-> vol]

\* n bars whose closes move by step a day and end at 100 + jump; every bar but
\* the last has the same wick and a volume of 100.  A last wick of -1 is a bar
\* that closes above its own high.
TrendBars(n, step, wick, jump, last_wick, last_vol) ==
    [none |-> FALSE,
     rows |-> [i \in 1..n |->
                 IF i = n THEN Bar(100 + jump, last_wick, last_vol)
                 ELSE Bar(100 + step * (i - n), wick, 100)]]

\* A day's move of the closes, the wicks, and the last bar's jump and volume.
Steps     == {-1, 0, 1}
Wicks     == {0, 2}
LastWicks == {-1, 0, 1}
Jumps     == {0, 5}
LastVols  == {0, 100, 200}

\* Series of MIN_ROWS rows and series around the length of the 60-row window.
BarDfs ==
    {TrendBars(n, step, wick, jump, last_wick, last_vol) :
        n \in {MIN_ROWS - 1, MIN_ROWS}
              \cup ((LONG_WINDOW - 1)..(LONG_WINDOW + MaxLongExtraRows)),
        step \in Steps, wick \in Wicks, jump \in Jumps,
        last_wick \in LastWicks, last_vol \in LastVols}

CallFetchData ==
    /\ call = NoCall
    /\ call' = [NoCall EXCEPT !.fn = "fetch_data"]
    /\ ret' = fetch_data(df)
    /\ UNCHANGED <<session_state, df, aligned_chips, info, warnings>>

\* analyze_stock from the download on: df = TechProvider.fetch_data(...) and
\* the scorer on its last two rows.
CallFetchAndAnalyze ==
    /\ call = NoCall
    /\ \E include_chips \in BOOLEAN, zero_div \in ZeroDivOutcomes :
        /\ call' = [fn |-> "fetch_data+analyze_stock", market_regime |-> "-",
                    strategy_mode |-> "-",
                    include_chips |-> include_chips, zero_div |-> zero_div]
        /\ ret' = analyze_stock(fetch_data(df), info, include_chips,
                                aligned_chips, zero_div)
    /\ UNCHANGED <<session_state, df, aligned_chips, info, warnings>>

InitFetch ==
    /\ df \in BarDfs
    /\ info \in FewInfos
    /\ aligned_chips = NoChips
    /\ call = NoCall
    /\ ret = NoRet
    /\ warnings = 0
    /\ session_state = NoSession

NextFetch ==
    \/ CallFetchData
    \/ CallFetchAndAnalyze

SpecFetch == InitFetch /\ [][NextFetch]_vars

----------------------------------------------------------------------------
(* record_chip_event *)

\* if len(hist) > 50: keep hist[-50:]
HISTORY_LIMIT == 50

\* pd.to_datetime(date).strftime('%Y-%m-%d') of a timestamp [day, hour]: the
\* day, without the time of day.
strftime_day(date) == date.day

\* The event dict built from the arguments.
chip_event(stock_id, kind, prev_val, last_val, date) ==
    [stock_id |-> stock_id, type |-> kind, prev |-> prev_val,
     last |-> last_val, date |-> strftime_day(date)]

\* hist[-1]['stock_id'] == event['stock_id'] and ... ['type'] ... ['date'].
same_event_key(a, b) ==
    a.stock_id = b.stock_id /\ a.type = b.type /\ a.date = b.date

\* hist[-n:]
last_n(hist, n) ==
    IF Len(hist) <= n THEN hist ELSE SubSeq(hist, Len(hist) - n + 1, Len(hist))

\* A recorder that stores the last event only when it is appended.
record_chip_event_last_on_append(ss, stock_id, kind, prev_val, last_val, date) ==
    LET event == chip_event(stock_id, kind, prev_val, last_val, date)
        hist  == ss.chip_switch_history
    IN  IF Len(hist) = 0 \/ ~same_event_key(hist[Len(hist)], event)
        THEN [ss EXCEPT !.chip_switch_history =
                            last_n(Append(hist, event), HISTORY_LIMIT),
                        !.last_chip_switch[stock_id] = event]
        ELSE ss

\* The session after record_chip_event: the event is appended unless the last
\* entry has its stock_id, type and date, the list is cut to its last
\* HISTORY_LIMIT entries, and last_chip_switch_<stock_id> is set in any case.
\* (The arguments are numbers and a timestamp, so nothing in the try block
\* raises.)
record_chip_event(ss, stock_id, kind, prev_val, last_val, date) ==
    LET event == chip_event(stock_id, kind, prev_val, last_val, date)
        hist  == ss.chip_switch_history
    IN  [ss EXCEPT
            !.chip_switch_history =
                IF Len(hist) = 0 \/ ~same_event_key(hist[Len(hist)], event)
                THEN IF Len(Append(hist, event)) > HISTORY_LIMIT
                     THEN last_n(Append(hist, event), HISTORY_LIMIT)
                     ELSE Append(hist, event)
                ELSE hist,
            !.last_chip_switch[stock_id] = event]

\* Calls whose arguments are chosen freely at the start of a session, and
\* calls made once the list has reached its limit.
MaxFreeCalls      == 2
MaxCallsPastLimit == 3

\* The arguments of a freely chosen call: two calls that differ in the time of
\* day and in the values only, a switch the other way, another day, another
\* stock.
ChipEventArgs ==
    {[stock_id |-> "2330.TW", kind |-> "sell_to_buy", prev_val |-> -10,
      last_val |-> 5, date |-> [day |-> 1, hour |-> 0]],
     [stock_id |-> "2330.TW", kind |-> "sell_to_buy", prev_val |-> 0,
      last_val |-> 10, date |-> [day |-> 1, hour |-> 9]],
     [stock_id |-> "2330.TW", kind |-> "buy_to_sell", prev_val |-> 5,
      last_val |-> -10, date |-> [day |-> 1, hour |-> 0]],
     [stock_id |-> "2330.TW", kind |-> "sell_to_buy", prev_val |-> -10,
      last_val |-> 5, date |-> [day |-> 2, hour |-> 0]],
     [stock_id |-> "2317.TW", kind |-> "sell_to_buy", prev_val |-> -10,
      last_val |-> 5, date |-> [day |-> 1, hour |-> 0]]}

\* The arguments of the calls in between: the two stocks in turn, on another
\* day than the free calls.
AlternatingArgs(len) ==
    [stock_id |-> IF len % 2 = 0 THEN "2330.TW" ELSE "2317.TW",
     kind |-> "sell_to_buy(MA)", prev_val |-> 0, last_val |-> 5,
     date |-> [day |-> 0, hour |-> 0]]

\* The number of record_chip_event calls made so far.
RecordCalls == IF call.fn = "record_chip_event" THEN call.n ELSE 0

CallRecordChipEvent ==
    /\ RecordCalls < HISTORY_LIMIT + MaxCallsPastLimit
    /\ \E a \in ChipEventArgs \cup
                {AlternatingArgs(Len(session_state.chip_switch_history))} :
        /\ IF \/ RecordCalls < MaxFreeCalls
              \/ Len(session_state.chip_switch_history) >= HISTORY_LIMIT - 1
           THEN a \in ChipEventArgs
           ELSE a = AlternatingArgs(Len(session_state.chip_switch_history))
        /\ call' = [fn |-> "record_chip_event", market_regime |-> "-",
                    strategy_mode |-> "-", args |-> a, n |-> RecordCalls + 1]
        /\ session_state' = record_chip_event(session_state, a.stock_id, a.kind,
                                              a.prev_val, a.last_val, a.date)
    /\ ret' = ReturnNone
    /\ UNCHANGED <<df, aligned_chips, info, warnings>>

InitSession ==
    /\ df = [none |-> TRUE, rows |-> <<>>]
    /\ aligned_chips = NoChips
    /\ info = NoInfo
    /\ call = NoCall
    /\ ret = NoRet
    /\ warnings = 0
    /\ session_state = NoSession

NextSession == CallRecordChipEvent

SpecSession == InitSession /\ [][NextSession]_vars

----------------------------------------------------------------------------
(* ChipProvider.get_foreign_data and the alignment of the flows *)

(* The table of ChipProvider.fetch_raw_data is [none, columns, rows]: none
   when FinMind is not installed, the request failed or nothing came back;
   rows are [date, name, buy, sell] records in any order, several of them a
   date (one per kind of investor).  Dates are day numbers. *)

\* str.contains('Foreign|...', case=False): the FinMind names that match.
is_foreign(name) == name \in {"Foreign_Investor", "Foreign_Dealer_Self"}

RECURSIVE SortedSeq(_)
SortedSeq(S) ==
    IF S = {} THEN <<>>
    ELSE LET lo == CHOOSE x \in S : \A y \in S : x <= y
         IN  <<lo>> \o SortedSeq(S \ {lo})

\* groupby(date)[col].sum() for one date: the sum over all rows of that date.
RECURSIVE group_sum(_, _, _, _)
group_sum(rows, date, col, n) ==
    IF n = 0 THEN 0
    ELSE (IF rows[n].date = date THEN rows[n][col] ELSE 0)
         + group_sum(rows, date, col, n - 1)

\* The try block of get_foreign_data: the rows of foreign investors, summed by
\* date in the order of the dates, Net_Buy = (buy - sell) / 1000 in lots and
\* Chip_MA5 = Net_Buy.rolling(5).mean().  (The amounts explored make both
\* quotients whole numbers.)
get_foreign_data_try(raw) ==
    IF raw.none \/ Len(raw.rows) = 0 THEN ReturnNone
    \* without a 'name' column the mask is taken on the first column, the
    \* dates, where nothing matches
    ELSE IF "name" \notin raw.columns THEN ReturnNone
    ELSE
      LET df_foreign == SelectSeq(raw.rows, LAMBDA r : is_foreign(r.name))
          dates == SortedSeq({df_foreign[k].date : k \in 1..Len(df_foreign)})
          buy   == [i \in 1..Len(dates) |->
                      group_sum(df_foreign, dates[i], "buy", Len(df_foreign))]
          sell  == [i \in 1..Len(dates) |->
                      group_sum(df_foreign, dates[i], "sell", Len(df_foreign))]
          net   == [i \in 1..Len(dates) |-> (buy[i] - sell[i]) \div 1000]
      IN  IF Len(df_foreign) = 0 THEN ReturnNone
          ELSE IF "date" \notin raw.columns THEN ReturnNone
          ELSE IF ~({"buy", "sell"} \subseteq raw.columns) THEN Raised
          ELSE [outcome |-> "df",
                frame |->
                  [none |-> FALSE,
                   columns |-> {"buy", "sell", "Net_Buy", "Chip_MA5"},
                   index |-> dates,
                   rows |-> [i \in 1..Len(dates) |->
                      [buy |-> buy[i], sell |-> sell[i], Net_Buy |-> net[i],
                       Chip_MA5 |->
                          IF i < CHIP_MA_WINDOW THEN NaN
                          ELSE SumDefined(net, (i - CHIP_MA_WINDOW + 1)..i)
                                 \div CHIP_MA_WINDOW]]]]

get_foreign_data(raw) == except_return_None(get_foreign_data_try(raw))

\* The table a caller holds: None becomes NoChips.
df_chips_of(r) == IF r.outcome = "df" THEN r.frame ELSE NoChips

FlowColumns == {"buy", "sell", "Net_Buy", "Chip_MA5"}

\* df_chips.reindex(index): the row of each date of the index, all NaN for a
\* date the table does not have; dates of the table outside the index are
\* dropped.
reindex(chips, index) ==
    [chips EXCEPT
        !.index = index,
        !.rows = [j \in 1..Len(index) |->
            IF \E i \in 1..Len(chips.index) : chips.index[i] = index[j]
            THEN chips.rows[CHOOSE i \in 1..Len(chips.index) :
                                chips.index[i] = index[j]]
            ELSE [col \in FlowColumns |-> NaN]]]

\* .bfill(): every NaN takes the next defined value below it.
bfill(t) ==
    [t EXCEPT !.rows = [j \in 1..Len(t.rows) |-> [col \in FlowColumns |->
        LET S == {i \in j..Len(t.rows) : IsNum(t.rows[i][col])}
        IN  IF S = {} THEN NaN
            ELSE t.rows[CHOOSE i \in S : \A k \in S : i <= k][col]]]]

\* .ffill(): every NaN takes the last defined value above it, column by
\* column; the leading NaNs stay.
ffill(t) ==
    [t EXCEPT !.rows = [j \in 1..Len(t.rows) |-> [col \in FlowColumns |->
        LET S == {i \in 1..j : IsNum(t.rows[i][col])}
        IN  IF S = {} THEN NaN
            ELSE t.rows[CHOOSE i \in S : \A k \in S : k <= i][col]]]]

\* aligned_chips['Net_Buy'].tail(5).sum(): NaN counts as 0.
tail_sum(t, col, n) ==
    SumDefined([i \in 1..Len(t.rows) |-> t.rows[i][col]],
               {i \in 1..Len(t.rows) : i > Len(t.rows) - n})

\* Section 5 of render_deep_checkup_view: the aligned table, what is shown,
\* and the session after a detected switch was recorded.
chip_section(df_chips, index, ss, stock_id) ==
    IF df_chips.none \/ Len(df_chips.rows) = 0
    THEN [shown |-> "no_flow_data", aligned |-> NoChips, session |-> ss]
    ELSE
      LET aligned == ffill(reindex(df_chips, index))
          switch  == detect_chip_switch(aligned)
      IN  IF Len(aligned.rows) = 0
          THEN [shown |-> "cannot_align", aligned |-> aligned, session |-> ss]
          ELSE IF ~IsNum(aligned.rows[Len(aligned.rows)].Net_Buy)
          THEN [shown |-> "no_foreign_data", aligned |-> aligned, session |-> ss]
          ELSE [shown |-> "flows",
                last_net |-> aligned.rows[Len(aligned.rows)].Net_Buy,
                recent_5_days |-> tail_sum(aligned, "Net_Buy", 5),
                switch |-> switch,
                aligned |-> aligned,
                session |->
                    IF switch.outcome = "tuple"
                    THEN record_chip_event(ss, stock_id, switch.kind,
                             switch.prev_val, switch.last_val,
                             [day |-> index[Len(index)], hour |-> 0])
                    ELSE ss]

\* The flow message of generate_executive_summary.
summary_chip_msg(df_chips, index) ==
    IF df_chips.none \/ Len(df_chips.rows) = 0 THEN "unknown"
    ELSE LET recent_5_sum ==
                 tail_sum(ffill(reindex(df_chips, index)), "Net_Buy", 5)
         IN  IF recent_5_sum > 0 THEN "buying"
             ELSE IF recent_5_sum < 0 THEN "selling" ELSE "unknown"

\* Flow dates and trading dates.
MaxFlowDate    == 5
MaxTradingDate == 6

\* The records of one date: the foreign investors sell 10 lots up to the
\* turning date and buy 5 lots after it; on the doubled date the foreign
\* dealers buy 5 lots more; an investment trust may trade every day.
FlowRecords(date, turn, doubled, trust) ==
    <<[date |-> date, name |-> "Foreign_Investor",
       buy  |-> IF date <= turn THEN 0 ELSE 5000,
       sell |-> IF date <= turn THEN 10000 ELSE 0]>>
    \o (IF date = doubled
        THEN <<[date |-> date, name |-> "Foreign_Dealer_Self",
                buy |-> 5000, sell |-> 0]>>
        ELSE <<>>)
    \o (IF trust
        THEN <<[date |-> date, name |-> "Investment_Trust",
                buy |-> 20000, sell |-> 0]>>
        ELSE <<>>)

\* The records of the dates 1..hi that are in D, latest date first.
RECURSIVE FlowRows(_, _, _, _, _)
FlowRows(D, hi, turn, doubled, trust) ==
    IF hi = 0 THEN <<>>
    ELSE (IF hi \in D THEN FlowRecords(hi, turn, doubled, trust) ELSE <<>>)
         \o FlowRows(D, hi - 1, turn, doubled, trust)

RawColumns == {"date", "name", "buy", "sell"}

RawFlows ==
    {[none |-> FALSE, columns |-> RawColumns,
      rows |-> FlowRows(D, MaxFlowDate, turn, doubled, trust)] :
        D \in SUBSET (1..MaxFlowDate), turn \in {0, 2},
        doubled \in 0..MaxFlowDate, trust \in BOOLEAN}
    \cup {[none |-> TRUE, columns |-> {}, rows |-> <<>>]}
    \cup {[none |-> FALSE, columns |-> RawColumns \ {c},
           rows |-> FlowRows({1, 2}, 2, 0, 0, FALSE)] : c \in RawColumns}

\* A price table with its index of trading dates, in increasing order.
TradingDfs ==
    {[none |-> FALSE, index |-> SortedSeq(T),
      rows |-> [i \in 1..Cardinality(T) |-> Bar(100, 1, 100)]] :
        T \in SUBSET (1..MaxTradingDate)}

CallGetForeignData ==
    /\ call = NoCall
    /\ \E raw \in RawFlows :
        /\ call' = [fn |-> "get_foreign_data", market_regime |-> "-",
                    strategy_mode |-> "-", raw |-> raw]
        /\ ret' = get_foreign_data(raw)
    /\ UNCHANGED <<session_state, df, aligned_chips, info, warnings>>

CallChipSection ==
    /\ call = NoCall
    /\ \E raw \in RawFlows, stock_id \in StockIds :
        LET r == chip_section(df_chips_of(get_foreign_data(raw)), df.index,
                              session_state, stock_id)
        IN  /\ call' = [fn |-> "render_deep_checkup_view", market_regime |-> "-",
                        strategy_mode |-> "-", raw |-> raw, stock_id |-> stock_id]
            /\ ret' = [r EXCEPT !.session = "-", !.aligned = "-"]
            /\ aligned_chips' = r.aligned
            /\ session_state' = r.session
    /\ UNCHANGED <<df, info, warnings>>

CallSummaryChips ==
    /\ call = NoCall
    /\ \E raw \in RawFlows :
        /\ call' = [fn |-> "generate_executive_summary", market_regime |-> "-",
                    strategy_mode |-> "-", raw |-> raw]
        /\ ret' = [chip_msg |->
                     summary_chip_msg(df_chips_of(get_foreign_data(raw)), df.index)]
    /\ UNCHANGED <<session_state, df, aligned_chips, info, warnings>>

InitFlow ==
    /\ df \in TradingDfs
    /\ aligned_chips = NoChips
    /\ info = NoInfo
    /\ call = NoCall
    /\ ret = NoRet
    /\ warnings = 0
    /\ session_state = NoSession

NextFlow ==
    \/ CallGetForeignData
    \/ CallChipSection
    \/ CallSummaryChips

SpecFlow == InitFlow /\ [][NextFlow]_vars

----------------------------------------------------------------------------
(* The holdings page *)

(* st.session_state['holdings'] is a list of lots [code, buy_price, qty] and
   st.session_state['history'] a list of sale records; the buy and sell dates
   and the notes of the forms, which no operation reads, are left out.  The
   page writes both lists to holdings.json and history.json after every
   change. *)

\* normalize_stock_id on the codes typed into the form: upper case, and .TW
\* appended to a code without a suffix; the empty string stays empty.
normalize_stock_id(code) ==
    CASE code \in {"2330", "2330.tw", "2330.TW"} -> "2330.TW"
      [] code \in {"2317", "2317.TW"} -> "2317.TW"
      [] OTHER -> code

\* Submitting add_holding_form: a new lot is appended, also when the code is
\* held already; without a code nothing is added.
add_holding(ss, code_in, buy_price, qty) ==
    IF code_in = "" THEN ss
    ELSE [ss EXCEPT !.holdings =
            Append(@, [code |-> normalize_stock_id(code_in),
                       buy_price |-> buy_price, qty |-> qty])]

\* codes = [r['代號'] for r in rows]: the options of the selectbox.
holding_codes(ss) == {ss.holdings[k].code : k \in 1..Len(ss.holdings)}

\* next((h for h in holdings if h.get('code') == sel), None): the position of
\* the first lot of the selected code.
selected_lot(ss, sel) ==
    CHOOSE k \in 1..Len(ss.holdings) :
        /\ ss.holdings[k].code = sel
        /\ \A j \in 1..(k - 1) : ss.holdings[j].code # sel

\* [h for h in holdings if h.get('code') != sel]
without_code(holdings, sel) == SelectSeq(holdings, LAMBDA h : h.code # sel)

\* The delete button.
delete_holding(ss, sel) ==
    [ss EXCEPT !.holdings = without_code(@, sel)]

\* (sell_price - buy_price) * qty, and (sell_price / buy_price - 1) * 100 in
\* whole percent, rounded down, None for a buy price of 0.
realized_profit(buy_price, sell_price, qty) == (sell_price - buy_price) * qty
realized_pct(buy_price, sell_price) ==
    IF buy_price # 0 THEN (100 * (sell_price - buy_price)) \div buy_price
    ELSE PyNone

\* Submitting edit_holding: the selected lot takes the price and the quantity
\* of the form.
edit_holding(ss, sel, e_buy_price, e_qty) ==
    [ss EXCEPT !.holdings[selected_lot(ss, sel)] =
        [@ EXCEPT !.buy_price = e_buy_price, !.qty = e_qty]]

\* Submitting edit_history_<idx>: the record takes the prices of the form and
\* its profit is computed again from them and its quantity.
edit_history(ss, idx, he_buy_price, he_sell_price) ==
    [ss EXCEPT !.history[idx] =
        [@ EXCEPT !.buy_price = he_buy_price, !.sell_price = he_sell_price,
                  !.realized_profit =
                      realized_profit(he_buy_price, he_sell_price,
                                      ss.history[idx].qty),
                  !.realized_pct = realized_pct(he_buy_price, he_sell_price)]]

\* st.session_state['history'].pop(idx)
delete_history(ss, idx) ==
    [ss EXCEPT !.history =
        [j \in 1..(Len(@) - 1) |-> IF j < idx THEN @[j] ELSE @[j + 1]]]

\* Submitting sell_holding: a record with the quantity of the form goes to
\* the history (realized_pct in whole percent, rounded down, None for a buy
\* price of 0); if that quantity reaches the selected lot's, every lot of the
\* code leaves the holdings, otherwise the selected lot is reduced.
sell_holding(ss, sel, sell_price, sell_qty) ==
    LET k   == selected_lot(ss, sel)
        lot == ss.holdings[k]
        qty == sell_qty
    IN  [ss EXCEPT
            !.history = Append(@, [code |-> lot.code, buy_price |-> lot.buy_price,
                                   sell_price |-> sell_price, qty |-> qty,
                                   realized_profit |->
                                      realized_profit(lot.buy_price, sell_price, qty),
                                   realized_pct |->
                                      realized_pct(lot.buy_price, sell_price)]),
            !.holdings = IF qty >= lot.qty
                         THEN without_code(@, lot.code)
                         ELSE [@ EXCEPT ![k].qty = lot.qty - qty]]

\* Lots held at once and sales recorded in the sessions explored.
MaxLots  == 3
MaxSales == 2

\* number_input(min_value=50, step=50): the quantities of the forms.
MIN_QTY == 50
Quantities     == {MIN_QTY, 2 * MIN_QTY}
SellQuantities == {MIN_QTY, 2 * MIN_QTY, 3 * MIN_QTY}
CodesTyped     == {"", "2330", "2330.TW", "2317"}
BuyPrices      == {100}
SellPrices     == {110}
EditPrices     == {0}
EditSellPrices == {120}
EditQuantities == {3 * MIN_QTY}

SubmitAddHolding ==
    /\ Len(session_state.holdings) < MaxLots
    /\ \E code_in \in CodesTyped, buy_price \in BuyPrices, qty \in Quantities :
        /\ call' = [fn |-> "add_holding_form", market_regime |-> "-",
                    strategy_mode |-> "-", code |-> normalize_stock_id(code_in),
                    qty |-> qty]
        /\ session_state' = add_holding(session_state, code_in, buy_price, qty)
    /\ ret' = ReturnNone
    /\ UNCHANGED <<df, aligned_chips, info, warnings>>

ClickDeleteHolding ==
    /\ \E sel \in holding_codes(session_state) :
        /\ call' = [fn |-> "delete_holding", market_regime |-> "-",
                    strategy_mode |-> "-", code |-> sel, qty |-> 0]
        /\ session_state' = delete_holding(session_state, sel)
    /\ ret' = ReturnNone
    /\ UNCHANGED <<df, aligned_chips, info, warnings>>

SubmitSellHolding ==
    /\ Len(session_state.history) < MaxSales
    /\ \E sel \in holding_codes(session_state), sell_price \in SellPrices,
          sell_qty \in SellQuantities :
        /\ call' = [fn |-> "sell_holding", market_regime |-> "-",
                    strategy_mode |-> "-", code |-> sel, qty |-> sell_qty]
        /\ session_state' = sell_holding(session_state, sel, sell_price, sell_qty)
    /\ ret' = ReturnNone
    /\ UNCHANGED <<df, aligned_chips, info, warnings>>

SubmitEditHolding ==
    /\ \E sel \in holding_codes(session_state), e_buy_price \in EditPrices,
          e_qty \in EditQuantities :
        /\ call' = [fn |-> "edit_holding", market_regime |-> "-",
                    strategy_mode |-> "-", code |-> sel, qty |-> e_qty]
        /\ session_state' = edit_holding(session_state, sel, e_buy_price, e_qty)
    /\ ret' = ReturnNone
    /\ UNCHANGED <<df, aligned_chips, info, warnings>>

SubmitEditHistory ==
    /\ \E idx \in 1..Len(session_state.history), he_buy_price \in EditPrices,
          he_sell_price \in EditSellPrices :
        /\ call' = [fn |-> "edit_history", market_regime |-> "-",
                    strategy_mode |-> "-",
                    code |-> session_state.history[idx].code, qty |-> 0]
        /\ session_state' = edit_history(session_state, idx, he_buy_price,
                                         he_sell_price)
    /\ ret' = ReturnNone
    /\ UNCHANGED <<df, aligned_chips, info, warnings>>

ClickDeleteHistory ==
    /\ \E idx \in 1..Len(session_state.history) :
        /\ call' = [fn |-> "delete_history", market_regime |-> "-",
                    strategy_mode |-> "-",
                    code |-> session_state.history[idx].code, qty |-> 0]
        /\ session_state' = delete_history(session_state, idx)
    /\ ret' = ReturnNone
    /\ UNCHANGED <<df, aligned_chips, info, warnings>>

\* The page of a session whose holdings.json and history.json are empty.
InitHoldings ==
    /\ df = [none |-> TRUE, rows |-> <<>>]
    /\ aligned_chips = NoChips
    /\ info = NoInfo
    /\ call = NoCall
    /\ ret = NoRet
    /\ warnings = 0
    /\ session_state = NoSession

NextHoldings ==
    \/ SubmitAddHolding
    \/ ClickDeleteHolding
    \/ SubmitSellHolding
    \/ SubmitEditHolding
    \/ SubmitEditHistory
    \/ ClickDeleteHistory

SpecHoldings == InitHoldings /\ [][NextHoldings]_vars

----------------------------------------------------------------------------
(* Properties *)

EvalCalled   == call.fn = "evaluate_stock"
EngineCalled == call.fn = "strategy_engine"
GateCalled   == call.fn = "market_regime_gate"
SelectCalled == call.fn = "select_strategy_mode"

\* The locals of the evaluate_stock call recorded in call.
EvalRun == evaluate_stock_run(df, call.market_regime, call.strategy_mode)

\* C1: every record returned by strategy_engine, and by evaluate_stock for any
\* regime and mode arguments, has buy = true only if watch = true.
C1_BuyImpliesWatch ==
    (EvalCalled \/ EngineCalled) => (ret.buy => ret.watch)

\* A strategy_engine call that returned buy = true (and watch = true).
C1_Witness == EngineCalled /\ ret.buy /\ ret.watch

\* C2: a strategy_engine record whose regime is BEAR or whose mode is NoTrade
\* has watch = false, buy = false, confidence = 0; the engine returns such a
\* record whenever the gate denies longs or the selector returns NoTrade; and
\* evaluate_stock called with regime BEAR or mode NoTrade returns watch = false
\* and buy = false.
C2_BearOrNoTradeIsAllFalse ==
    /\ EngineCalled /\ (ret.market_regime = "BEAR" \/ ret.mode = "NoTrade")
         => ~ret.watch /\ ~ret.buy /\ ret.confidence = 0
    /\ EngineCalled /\ ~insufficient(df)
         /\ (\/ ~market_regime_gate(df).allow_long
             \/ select_strategy_mode(df, market_regime_gate(df).regime).mode = "NoTrade")
         => ret.mode = "NoTrade" /\ ~ret.watch /\ ~ret.buy /\ ret.confidence = 0
    /\ EvalCalled /\ (call.market_regime = "BEAR" \/ call.strategy_mode = "NoTrade")
         => ~ret.watch /\ ~ret.buy

\* The engine cut short by the selector: the gate allowed longs on a table of
\* at least MIN_ROWS rows and the selector returned NoTrade.
C2_Witness ==
    /\ EngineCalled /\ ~insufficient(df)
    /\ market_regime_gate(df).allow_long
    /\ select_strategy_mode(df, market_regime_gate(df).regime).mode = "NoTrade"
    /\ ret.confidence = 0

\* C3: on a table of fewer than 30 rows (empty or None included) the pipeline
\* yields no enriched table, the gate returns UNKNOWN with allow_long = false,
\* the selector returns NoTrade for any regime, evaluate_stock returns
\* watch = false, buy = false, confidence = 0 for any regime and mode, and the
\* engine returns UNKNOWN, NoTrade, false, false, 0.
C3_ShortSeriesSentinels ==
    (df.none \/ Len(df.rows) < 30) =>
        /\ call.fn = "_process_indicators" => ret.outcome # "df"
        /\ GateCalled => ret.regime = "UNKNOWN" /\ ~ret.allow_long
        /\ SelectCalled => ret.mode = "NoTrade"
        /\ EvalCalled => ~ret.watch /\ ~ret.buy /\ ret.confidence = 0
        /\ EngineCalled =>
              /\ ret.market_regime = "UNKNOWN" /\ ret.mode = "NoTrade"
              /\ ~ret.watch /\ ~ret.buy /\ ret.confidence = 0

\* evaluate_stock called with BULL and Trend on a table of 29 rows.
C3_Witness ==
    /\ EvalCalled /\ ~df.none /\ Len(df.rows) = 29
    /\ call.market_regime = "BULL" /\ call.strategy_mode = "Trend"

\* C4: on a table of at least 30 rows the gate returns BULL with allow_long
\* when close >= MA60, MA20 >= MA60 and slope > 0 on the last row; otherwise
\* NEUTRAL with allow_long when close >= MA60; otherwise BEAR without
\* allow_long.  allow_long is false exactly for BEAR and UNKNOWN.
C4_GateDecisionTable ==
    GateCalled =>
        /\ ret.allow_long = (ret.regime \notin {"BEAR", "UNKNOWN"})
        /\ ~insufficient(df) =>
             LET last  == df.rows[Len(df.rows)]
                 above == IsNum(last.Close) /\ IsNum(last.MA60) /\ last.Close >= last.MA60
                 stack == IsNum(last.MA20) /\ IsNum(last.MA60) /\ last.MA20 >= last.MA60
                 up    == IsNum(ma60_slope(df)) /\ ma60_slope(df) > 0
             IN  ret.regime = IF above /\ stack /\ up THEN "BULL"
                              ELSE IF above THEN "NEUTRAL" ELSE "BEAR"

\* The gate returned NEUTRAL on a last row with close = MA60 and a rising MA60.
C4_Witness ==
    /\ GateCalled /\ ~insufficient(df)
    /\ ret.regime = "NEUTRAL"
    /\ curr_row(df).Close = curr_row(df).MA60
    /\ Gt(ma60_slope(df), 0)

\* C5: in every record returned by strategy_engine the regime is one of BULL,
\* NEUTRAL, BEAR, UNKNOWN, the mode is one of Trend, Pullback, NoTrade, and
\* confidence is an integer between 0 and 100.
C5_RecordDomains ==
    EngineCalled =>
        /\ ret.market_regime \in {"BULL", "NEUTRAL", "BEAR", "UNKNOWN"}
        /\ ret.mode \in {"Trend", "Pullback", "NoTrade"}
        /\ ret.confidence \in 0..100

\* C6: every record returned by strategy_engine carries the primary fields and
\* the legacy fields, with regime = market_regime and signal derived from
\* buy and watch.
C6_AliasesOnEveryPath ==
    EngineCalled =>
        /\ {"market_regime", "mode", "watch", "buy", "confidence", "reason",
            "regime", "signal", "status", "reasons"} \subseteq DOMAIN ret
        /\ ret.regime = ret.market_regime
        /\ ret.signal = IF ret.buy THEN "buy" ELSE IF ret.watch THEN "watch" ELSE "none"

\* C7: in evaluate_stock, close / MA60 > 1.25 forces buy = false, and a watch
\* that still holds carries the overextension caveat in its reason; at a ratio
\* of exactly 1.25 buy is what the triggers make it.
C7_OverextensionDisablesBuy ==
    EvalCalled /\ EvalRun.early = "none" =>
        LET last == df.rows[Len(df.rows)]
        IN  IF ~IsNum(last.MA60) \/ ~IsNum(last.Close) \/ last.MA60 <= 0 THEN TRUE
            ELSE /\ 100 * last.Close > 125 * last.MA60 =>
                      /\ ~ret.buy
                      /\ ret.watch => \E i \in DOMAIN ret.reason :
                                         ret.reason[i] = "overextended"
                 /\ 100 * last.Close = 125 * last.MA60 =>
                      ret.buy = (/\ ret.watch
                                 /\ \/ /\ call.strategy_mode = "Trend"
                                       /\ breakout_trigger(df) \/ pullback_trigger(df)
                                    \/ /\ call.strategy_mode = "Pullback"
                                       /\ modeA_trigger(df))

\* evaluate_stock under BULL/Trend at close / MA60 > 1.25: watch holds, the
\* breakout trigger fires numerically, and buy is false.
C7_Witness ==
    /\ EvalCalled /\ EvalRun.early = "none"
    /\ call.strategy_mode = "Trend"
    /\ 100 * curr_row(df).Close > 125 * curr_row(df).MA60
    /\ breakout_trigger(df)
    /\ ret.watch /\ ~ret.buy

\* C8: the defensive correction of evaluate_stock is never taken: no call
\* reaches it with buy = true and watch = false, so no warning is logged.
C8_DefensiveBranchUnreachable ==
    /\ warnings = 0
    /\ EvalCalled => ~(EvalRun.buy_raw /\ ~EvalRun.watch)

\* evaluate_stock reached the defensive check with buy = true.
C8_Witness == EvalCalled /\ EvalRun.early = "none" /\ EvalRun.buy_raw

\* C9: past the early returns, confidence is 40 for watch plus 40 for buy plus
\* 20 under BULL or 10 under NEUTRAL, and lies in 0..100.
C9_ConfidenceFormula ==
    EvalCalled /\ EvalRun.early = "none" =>
        /\ ret.confidence =
              (IF ret.watch THEN 40 ELSE 0) + (IF ret.buy THEN 40 ELSE 0)
              + (CASE call.market_regime = "BULL" -> 20
                   [] call.market_regime = "NEUTRAL" -> 10
                   [] OTHER -> 0)
        /\ ret.confidence \in 0..100

\* evaluate_stock under BULL with watch and buy: confidence 100.
C9_Witness ==
    /\ EvalCalled /\ EvalRun.early = "none"
    /\ ret.watch /\ ret.buy /\ ret.confidence = 100

\* C10: on a table of at least 30 rows and a regime other than BEAR the
\* selector returns Trend exactly when, on the last row, close > MA20,
\* close >= MA60, MA20 >= MA60, slope > 0 and not (close < MA60 and
\* close > 0.9 x MA60); under BEAR it returns NoTrade.
C10_TrendExactly ==
    SelectCalled /\ ~insufficient(df) =>
        LET last  == df.rows[Len(df.rows)]
            c     == last.Close
            m20   == last.MA20
            m60   == last.MA60
            sl    == ma60_slope(df)
            conds == /\ IsNum(c) /\ IsNum(m20) /\ IsNum(m60) /\ IsNum(sl)
                     /\ c > m20 /\ c >= m60 /\ m20 >= m60 /\ sl > 0
                     /\ ~(c < m60 /\ 10 * c > 9 * m60)
        IN  IF call.market_regime = "BEAR" THEN ret.mode = "NoTrade"
            ELSE (ret.mode = "Trend") = conds

\* The selector returned Trend under a regime other than BULL and BEAR.
C10_Witness ==
    /\ SelectCalled /\ ~insufficient(df)
    /\ call.market_regime = "NEUTRAL" /\ ret.mode = "Trend"

\* The rows T-10 .. T-1 of a table whose last row is T.
Prior10 == (Len(df.rows) - 10) .. (Len(df.rows) - 1)

\* c >= the smallest defined value of column col over Prior10.
AtLeastPriorMin(c, col) ==
    IsNum(c) /\ \E i \in Prior10 : IsNum(df.rows[i][col]) /\ c >= df.rows[i][col]

\* c > the largest defined value of column col over Prior10.
AbovePriorMax(c, col) ==
    /\ IsNum(c)
    /\ \E i \in Prior10 : IsNum(df.rows[i][col])
    /\ \A i \in Prior10 : IsNum(df.rows[i][col]) => c > df.rows[i][col]

\* |c - m| / m <= pct / 100 for a defined, positive m.
WithinPct(c, m, pct) ==
    IsNum(c) /\ IsNum(m) /\ m > 0
    /\ (IF c >= m THEN 100 * (c - m) ELSE 100 * (m - c)) <= pct * m

\* The five Trend conditions on the last row.
TrendOnLastRow ==
    LET last == df.rows[Len(df.rows)]
        c    == last.Close
        m20  == last.MA20
        m60  == last.MA60
        sl   == ma60_slope(df)
    IN  /\ IsNum(c) /\ IsNum(m20) /\ IsNum(m60) /\ IsNum(sl)
        /\ c > m20 /\ c >= m60 /\ m20 >= m60 /\ sl > 0
        /\ ~(c < m60 /\ 10 * c > 9 * m60)

\* The selector was called on a table of at least 30 rows with a regime other
\* than BEAR, and the Trend test failed.
SelectPastTrend ==
    /\ SelectCalled /\ ~insufficient(df)
    /\ call.market_regime # "BEAR"
    /\ ~TrendOnLastRow

\* The Pullback conditions, with the prior-10 minimum taken over column col.
PullbackOnLastRow(col) ==
    LET last == df.rows[Len(df.rows)]
        sl   == ma60_slope(df)
    IN  /\ WithinPct(last.Close, last.MA20, 5) \/ WithinPct(last.Close, last.MA60, 5)
        /\ AtLeastPriorMin(last.Close, col)
        /\ IsNum(sl) /\ sl >= 0

\* C11 as stated: when the Trend test fails the selector returns Pullback
\* exactly when close is within 5% of MA20 or MA60, close >= the minimum close
\* of the prior 10 days and slope >= 0; otherwise NoTrade.
C11_PullbackByPriorClose ==
    SelectPastTrend =>
        ret.mode = IF PullbackOnLastRow("Close") THEN "Pullback" ELSE "NoTrade"

\* C11 amended: the same with the minimum LOW of the prior 10 days.
C11_PullbackByPriorLow ==
    SelectPastTrend =>
        ret.mode = IF PullbackOnLastRow("Low") THEN "Pullback" ELSE "NoTrade"

\* The selector returned Pullback on a close below every prior-10 close but
\* not below the prior-10 lows.
C11_Witness ==
    /\ SelectPastTrend /\ ret.mode = "Pullback"
    /\ ~AtLeastPriorMin(curr_row(df).Close, "Close")

\* The three prior-10 statistics the selector and evaluate_stock take of d.
PriorStats(d) ==
    LET W == prev_n_days(d, PRIOR_N)
    IN  [low       |-> window_min(d, "Low", W),
         high      |-> window_max(d, "High", W),
         min_close |-> window_min(d, "Close", W)]

\* d with its last row replaced by r.
ReplaceLast(d, r) == [d EXCEPT !.rows[Len(d.rows)] = r]

\* v is the smallest (largest) value of column col over rows T-10 .. T-1 of df.
IsPriorMin(v, col) ==
    /\ \E i \in Prior10 : df.rows[i][col] = v
    /\ \A i \in Prior10 : IsNum(df.rows[i][col]) => v <= df.rows[i][col]

IsPriorMax(v, col) ==
    /\ \E i \in Prior10 : df.rows[i][col] = v
    /\ \A i \in Prior10 : IsNum(df.rows[i][col]) => v >= df.rows[i][col]

\* C12: on a table of at least 30 rows the prior-10 low, high and minimum
\* close used by select_strategy_mode and evaluate_stock are the extremes over
\* exactly the rows T-10 .. T-1, they are the same for a table that differs
\* only in row T, and the decisions taken from them follow the prior rows
\* alone.
C12_PriorWindowExcludesToday ==
    (SelectCalled \/ EvalCalled) /\ ~insufficient(df) =>
        LET s    == PriorStats(df)
            last == curr_row(df)
        IN  /\ IsPriorMin(s.low, "Low")
            /\ IsPriorMax(s.high, "High")
            /\ IsPriorMin(s.min_close, "Close")
            /\ \A r \in {OutlierRow(100), [last EXCEPT !.High = 2000, !.Low = 0]} :
                   PriorStats(ReplaceLast(df, r)) = s
            /\ SelectPastTrend /\ ret.mode = "Pullback"
                   => AtLeastPriorMin(last.Close, "Low")
            /\ EvalCalled /\ call.strategy_mode = "Pullback" /\ ret.watch
                   => AtLeastPriorMin(last.Close, "Close")
            /\ EvalCalled /\ call.strategy_mode = "Trend" /\ ret.buy
                 /\ 10 * last.Volume >= 8 * last.Vol_MA20
                   => AbovePriorMax(last.Close, "High")

\* A breakout buy on a day whose own high is above the close: the close beat
\* the prior-10 high although it cannot beat a window that holds today.
C12_Witness ==
    /\ EvalCalled /\ ~insufficient(df) /\ call.strategy_mode = "Trend" /\ ret.buy
    /\ 10 * curr_row(df).Volume >= 8 * curr_row(df).Vol_MA20
    /\ curr_row(df).High > curr_row(df).Close
    /\ AbovePriorMax(curr_row(df).Close, "High")

\* evaluate_stock was called and none of its early returns was taken: at least
\* 30 rows, Vol_MA20 > 0, regime not BEAR, mode not NoTrade.
EvalPastReturns ==
    /\ EvalCalled /\ ~insufficient(df)
    /\ IsNum(curr_row(df).Vol_MA20) /\ curr_row(df).Vol_MA20 > 0
    /\ call.market_regime # "BEAR"
    /\ call.strategy_mode # "NoTrade"

\* close / MA60 > 1.25 on the last row (the ratio is 1.0 unless MA60 > 0).
OverextendedOnLastRow ==
    LET last == curr_row(df)
    IN  IsNum(last.MA60) /\ last.MA60 > 0 /\ IsNum(last.Close)
        /\ 100 * last.Close > 125 * last.MA60

\* C13: past the early returns of evaluate_stock, watch is true exactly when
\* the regime is BULL and either the mode is Trend with close > MA20,
\* close >= MA60, MA20 >= MA60 and slope > 0, or the mode is Pullback with
\* close >= MA60 and close >= the minimum close of the prior 10 days.
C13_WatchExactly ==
    EvalPastReturns =>
        LET last == curr_row(df)
            c    == last.Close
            m20  == last.MA20
            m60  == last.MA60
            sl   == ma60_slope(df)
        IN  ret.watch <=>
              /\ call.market_regime = "BULL"
              /\ IsNum(c) /\ IsNum(m60) /\ c >= m60
              /\ \/ /\ call.strategy_mode = "Trend"
                    /\ IsNum(m20) /\ IsNum(sl)
                    /\ c > m20 /\ m20 >= m60 /\ sl > 0
                 \/ /\ call.strategy_mode = "Pullback"
                    /\ AtLeastPriorMin(c, "Close")

\* Mode A watch on a table whose slope is not positive and whose MA20 is
\* undefined: the Pullback branch alone decided.
C13_Witness ==
    /\ EvalPastReturns /\ call.strategy_mode = "Pullback" /\ ret.watch
    /\ ~IsNum(curr_row(df).MA20)

\* C14: in Trend mode with watch true and no overextension, buy is true
\* exactly when (a) close is above the highest high of the prior 10 days and
\* volume >= 1.5 x Vol_MA20, or (b) close is within 2% of MA10 or MA20, volume
\* < 0.8 x Vol_MA20 and (close > open or the lower shadow is more than half of
\* the high-low range).
C14_TrendBuyExactly ==
    EvalPastReturns /\ call.strategy_mode = "Trend" /\ ret.watch
      /\ ~OverextendedOnLastRow =>
        LET last   == curr_row(df)
            c      == last.Close
            body   == IF last.Open < c THEN last.Open ELSE c
            shadow == body - last.Low
        IN  ret.buy <=>
              \/ /\ AbovePriorMax(c, "High")
                 /\ 2 * last.Volume >= 3 * last.Vol_MA20
              \/ /\ WithinPct(c, last.MA10, 2) \/ WithinPct(c, last.MA20, 2)
                 /\ 10 * last.Volume < 8 * last.Vol_MA20
                 /\ \/ c > last.Open
                    \/ last.High > last.Low /\ 2 * shadow > last.High - last.Low

\* A pullback-hold buy on a black candle with a long lower shadow.
C14_Witness ==
    /\ EvalPastReturns /\ call.strategy_mode = "Trend" /\ ret.buy
    /\ ~AbovePriorMax(curr_row(df).Close, "High")
    /\ curr_row(df).Close < curr_row(df).Open

\* A breakout buy on exactly 1.5 x Vol_MA20.
C14_WitnessBreakout ==
    /\ EvalPastReturns /\ call.strategy_mode = "Trend" /\ ret.buy
    /\ 2 * curr_row(df).Volume = 3 * curr_row(df).Vol_MA20

\* C15: in Pullback mode with watch true and no overextension, buy is true
\* exactly when close >= the minimum close of the prior 10 days, and at least
\* one of close > open, volume < 0.8 x Vol_MA20, K > D today with K <= D
\* yesterday, 40 < RSI < 60 holds, and close >= MA60.
C15_PullbackBuyExactly ==
    EvalPastReturns /\ call.strategy_mode = "Pullback" /\ ret.watch
      /\ ~OverextendedOnLastRow =>
        LET last == curr_row(df)
            prev == df.rows[Len(df.rows) - 1]
            c    == last.Close
        IN  ret.buy <=>
              /\ AtLeastPriorMin(c, "Close")
              /\ \/ c > last.Open
                 \/ 10 * last.Volume < 8 * last.Vol_MA20
                 \/ /\ IsNum(last.K) /\ IsNum(last.D) /\ IsNum(prev.K) /\ IsNum(prev.D)
                    /\ last.K > last.D /\ prev.K <= prev.D
                 \/ IsNum(last.RSI) /\ last.RSI > 40 /\ last.RSI < 60
              /\ IsNum(last.MA60) /\ c >= last.MA60

\* Mode A watch without buy on RSI = 40 exactly: no reversal signal.
C15_Witness ==
    /\ EvalPastReturns /\ call.strategy_mode = "Pullback" /\ ret.watch /\ ~ret.buy
    /\ ~OverextendedOnLastRow
    /\ curr_row(df).RSI = 40

\* A Mode A buy whose only reversal signal is the K/D crossing.
C15_WitnessCross ==
    /\ EvalPastReturns /\ call.strategy_mode = "Pullback" /\ ret.buy
    /\ curr_row(df).Close <= curr_row(df).Open
    /\ 10 * curr_row(df).Volume >= 8 * curr_row(df).Vol_MA20
    /\ curr_row(df).RSI = 70

\* All of the last five MA60 differences of df are defined.
SlopeFullyDefined ==
    LET n == Len(df.rows)
    IN  \A i \in (n - SLOPE_TAIL + 1) .. n :
            i > 1 /\ IsNum(df.rows[i].MA60) /\ IsNum(df.rows[i - 1].MA60)

\* C16: in the gate, the selector and evaluate_stock every condition that
\* reads an undefined indicator (MA20, MA60, a slope with an undefined
\* difference among the last five, Vol_MA20, K, D, RSI) is false, and an
\* undefined or zero Vol_MA20 makes evaluate_stock return all-false.
C16_UndefinedReadsAreFalse ==
    LET last == curr_row(df)
        prev == df.rows[Len(df.rows) - 1]
    IN  /\ GateCalled /\ ~insufficient(df)
             /\ (~IsNum(last.MA20) \/ ~IsNum(last.MA60) \/ ~SlopeFullyDefined)
             => ret.regime # "BULL"
        /\ GateCalled /\ ~insufficient(df) /\ ~IsNum(last.MA60)
             => ret.regime = "BEAR"
        /\ SelectCalled /\ ~insufficient(df)
             /\ (~SlopeFullyDefined \/ (~IsNum(last.MA20) /\ ~IsNum(last.MA60)))
             => ret.mode = "NoTrade"
        /\ SelectCalled /\ ~insufficient(df) /\ ~IsNum(last.MA20)
             => ret.mode # "Trend"
        /\ EvalCalled /\ ~insufficient(df)
             /\ (~IsNum(last.Vol_MA20) \/ last.Vol_MA20 = 0)
             => ~ret.watch /\ ~ret.buy /\ ret.confidence = 0
        /\ EvalCalled /\ ~insufficient(df) /\ ~IsNum(last.MA60)
             => ~ret.watch /\ ~ret.buy
        /\ EvalCalled /\ ~insufficient(df) /\ call.strategy_mode = "Trend"
             /\ (~IsNum(last.MA20) \/ ~SlopeFullyDefined)
             => ~ret.watch /\ ~ret.buy
        /\ EvalCalled /\ ~insufficient(df) /\ call.strategy_mode = "Pullback"
             /\ last.Close <= last.Open
             /\ IsNum(last.Vol_MA20) /\ 10 * last.Volume >= 8 * last.Vol_MA20
             /\ ~IsNum(last.RSI)
             /\ (~IsNum(last.K) \/ ~IsNum(last.D) \/ ~IsNum(prev.K) \/ ~IsNum(prev.D))
             => ~ret.buy

\* C16 without its slope clause: what is left holds.
C16_UndefinedValueReadsAreFalse ==
    LET last == curr_row(df)
    IN  /\ GateCalled /\ ~insufficient(df) /\ ~IsNum(last.MA60)
             => ret.regime = "BEAR"
        /\ GateCalled /\ ~insufficient(df) /\ ~IsNum(last.MA20)
             => ret.regime # "BULL"
        /\ SelectCalled /\ ~insufficient(df) /\ ~IsNum(last.MA20)
             => ret.mode # "Trend"
        /\ EvalCalled /\ ~insufficient(df)
             /\ (~IsNum(last.Vol_MA20) \/ last.Vol_MA20 = 0)
             => ~ret.watch /\ ~ret.buy /\ ret.confidence = 0
        /\ EvalCalled /\ ~insufficient(df) /\ ~IsNum(last.MA60)
             => ~ret.watch /\ ~ret.buy

\* The gate returned BULL on a slope taken from fewer than five differences.
C16_PartialSlopeIsBull ==
    GateCalled /\ ~insufficient(df) /\ ~SlopeFullyDefined /\ ret.regime = "BULL"

ChipCalled == call.fn = "detect_chip_switch"

\* The number of defined entries of a column of the flow table.
DefinedCount(col) == Cardinality({i \in 1..Len(aligned_chips.rows) :
                                     IsNum(aligned_chips.rows[i][col])})

\* v is the k-th defined entry from the end (k = 1 the last) of column col.
IsFromEnd(v, k, col) ==
    \E i \in 1..Len(aligned_chips.rows) :
        /\ aligned_chips.rows[i][col] = v /\ IsNum(v)
        /\ Cardinality({j \in (i + 1)..Len(aligned_chips.rows) :
                           IsNum(aligned_chips.rows[j][col])}) = k - 1

\* The flow table has both columns and at least two defined raw values.
TwoRawValues ==
    /\ ChipCalled /\ ~aligned_chips.none
    /\ aligned_chips.columns = {"Net_Buy", "Chip_MA5"}
    /\ DefinedCount("Net_Buy") >= 2

\* C18: with at least two defined raw values (prev, last the last two),
\* prev <= 0 and last > 0 reports sell-to-buy with (prev, last), prev >= 0 and
\* last < 0 reports buy-to-sell with (prev, last), never both, and last = 0
\* gives no report on the raw series.
C18_RawSignSwitch ==
    TwoRawValues =>
        \A p, l \in NetBuyVals \cup {-1, 1} :
            IsFromEnd(l, 1, "Net_Buy") /\ IsFromEnd(p, 2, "Net_Buy") =>
                /\ p <= 0 /\ l > 0 =>
                     ret = [outcome |-> "tuple", kind |-> "sell_to_buy",
                            prev_val |-> p, last_val |-> l]
                /\ p >= 0 /\ l < 0 =>
                     ret = [outcome |-> "tuple", kind |-> "buy_to_sell",
                            prev_val |-> p, last_val |-> l]
                /\ ~((p <= 0 /\ l > 0) /\ (p >= 0 /\ l < 0))
                /\ l = 0 =>
                     \/ ret.outcome = "None"
                     \/ ret.kind \notin {"sell_to_buy", "buy_to_sell"}
                /\ ret.outcome = "tuple" /\ ret.kind \in {"sell_to_buy", "buy_to_sell"}
                     => (p <= 0 /\ l > 0) \/ (p >= 0 /\ l < 0)

\* A sell-to-buy report from prev = 0, read across an undefined row.
C18_Witness ==
    /\ TwoRawValues /\ ret.outcome = "tuple" /\ ret.kind = "sell_to_buy"
    /\ ret.prev_val = 0
    /\ \E i \in 1..Len(aligned_chips.rows) : ~IsNum(aligned_chips.rows[i].Net_Buy)

\* C19: the smoothed average is consulted only when fewer than two raw values
\* are defined; two or more raw values without a sign change give no match,
\* and so do two series with fewer than two defined points each.
C19_AverageOnlyWithoutRaw ==
    /\ TwoRawValues /\ ret.outcome = "tuple"
         => ret.kind \in {"sell_to_buy", "buy_to_sell"}
    /\ ChipCalled /\ ~aligned_chips.none
         /\ aligned_chips.columns = {"Net_Buy", "Chip_MA5"}
         /\ DefinedCount("Net_Buy") < 2 /\ DefinedCount("Chip_MA5") < 2
         => ret.outcome = "None"

\* A report from the smoothed average on a table of the provider whose last
\* two raw values have the same sign.
C19_AverageAfterRaw ==
    /\ TwoRawValues /\ aligned_chips \in ProviderChips
    /\ ret.outcome = "tuple" /\ ret.kind = "sell_to_buy(MA)"

FilterCalled == call.fn = "ma5_breakout_ma20_filter"

\* The filter's match condition on the last two rows of df, with the medium
\* average read from column col.
CrossOnLastRows(col) ==
    /\ ~df.none /\ Len(df.rows) >= 2
    /\ LET curr == df.rows[Len(df.rows)]
           prev == df.rows[Len(df.rows) - 1]
       IN  /\ IsNum(curr.MA5) /\ IsNum(prev.MA5) /\ IsNum(curr[col]) /\ IsNum(prev[col])
           /\ IsNum(curr.Close) /\ curr.Close > curr.MA5
           /\ prev.MA5 <= prev[col]
           /\ curr.MA5 > curr[col]

\* C20 as stated: the filter matches exactly when close > MA5 today and MA5
\* was <= the 10-day average yesterday and is > the 10-day average today.
C20_CrossOfMA10 ==
    FilterCalled /\ info.fetch # "ticker_raises" =>
        (ret.outcome = "dict" <=> CrossOnLastRows("MA10"))

\* C20 amended: the same with the 20-day average; no match when one of MA5,
\* MA20 on the last two rows is undefined or the table has fewer than two
\* rows.
C20_CrossOfMA20 ==
    /\ FilterCalled /\ info.fetch # "ticker_raises" =>
         (ret.outcome = "dict" <=> CrossOnLastRows("MA20"))
    /\ FilterCalled /\ info.fetch = "ticker_raises" => ret.outcome = "None"
    /\ FilterCalled /\ ret.outcome = "dict" =>
         /\ ret.close = df.rows[Len(df.rows)].Close
         /\ ret.ma5 = df.rows[Len(df.rows)].MA5
         /\ ret.ma20 = df.rows[Len(df.rows)].MA20

\* A match on a cross of MA20 from equality (MA5 = MA20 yesterday) on a day
\* when MA5 stays below MA10.
C20_Witness ==
    /\ FilterCalled /\ ret.outcome = "dict"
    /\ df.rows[Len(df.rows) - 1].MA5 = df.rows[Len(df.rows) - 1].MA20
    /\ df.rows[Len(df.rows)].MA5 < df.rows[Len(df.rows)].MA10

AnalyzeCalled  == call.fn = "analyze_stock"
AdvancedCalled == call.fn = "advanced_quant_filter"

\* At least 30 rows and MA60 undefined on the last one: a series shorter than
\* the 60-day window.
ShortOfMA60 == ~insufficient(df) /\ ~IsNum(curr_row(df).MA60)

\* C17: analyze_stock, advanced_quant_filter, ma5_breakout_ma20_filter and
\* detect_chip_switch return a record or None and never raise, whatever the
\* table and the fundamentals; strategy_engine returns a record; and on a
\* table of at least 30 rows whose MA60 is undefined the engine's record (also
\* when advanced_quant_filter passes it on) is NoTrade with watch = false and
\* buy = false.
C17_NoEntryPointRaises ==
    /\ AnalyzeCalled => ret.outcome \in {"None", "result"}
    /\ AdvancedCalled \/ FilterCalled => ret.outcome \in {"None", "dict"}
    /\ ChipCalled => ret.outcome \in {"None", "tuple"}
    /\ EngineCalled =>
         /\ ret.market_regime \in Regimes
         /\ ret.watch \in BOOLEAN /\ ret.buy \in BOOLEAN
         /\ ret.confidence \in 0..100
    /\ EngineCalled /\ ShortOfMA60 =>
         ret.mode = "NoTrade" /\ ~ret.watch /\ ~ret.buy
    /\ AdvancedCalled /\ ShortOfMA60 /\ ret.outcome = "dict" =>
         ret.mode = "NoTrade" /\ ~ret.watch /\ ~ret.buy

\* analyze_stock returned None because a null fundamental raised inside it.
C17_Witness ==
    /\ AnalyzeCalled /\ ret.outcome = "None"
    /\ info.fetch = "ok" /\ ~df.none /\ Len(df.rows) >= MIN_ROWS
    /\ analyze_stock_try(df, info, call.include_chips, aligned_chips, call.zero_div) = Raised

\* advanced_quant_filter passed on the no-trade record of a table whose MA60
\* is undefined.
C17_WitnessShortWindow ==
    /\ AdvancedCalled /\ ShortOfMA60 /\ ret.outcome = "dict"
    /\ ret.mode = "NoTrade"

\* analyze_stock returned a result.
AnalyzeResult == AnalyzeCalled /\ ret.outcome = "result"

\* C21: whenever analyze_stock returns a result its score lies between 0 and
\* 100 inclusive: the points of the satisfied checks never exceed 10.
C21_ScoreWithin0And100 ==
    AnalyzeResult =>
        /\ ret.halves >= 0 /\ ret.halves <= 20
        /\ ret.score.whole >= 0
        /\ ret.score.whole < 100 \/ (ret.score.whole = 100 /\ ret.score.ulps = 0)

\* Eleven points: every check satisfied on a row whose close is above the
\* 60-day high.
C21_ElevenPoints ==
    AnalyzeResult /\ ret.halves = 22 /\ ret.score.whole = 110

\* The value of a fundamental as analyze_stock sees it, and whether it is a
\* number (neither missing nor None).
Fundamental(key) == IF info.fetch = "ok" THEN info[key] ELSE Absent
HasNumber(key)   == Fundamental(key) \notin {Absent, PyNone}

\* The eleven one-point checks on info and the last two rows of df, in the
\* order of the source, each with its tag; the two trend comparisons are >= when
\* inclusive and > otherwise.
ScorerChecks(inclusive) ==
    LET curr == df.rows[Len(df.rows)]
        prev == df.rows[Len(df.rows) - 1]
        above(a, b) == IsNum(a) /\ IsNum(b) /\ (IF inclusive THEN a >= b ELSE a > b)
    IN  << <<HasNumber("trailingPE") /\ Fundamental("trailingPE") < 25, "PE<25">>,
           <<HasNumber("pegRatio") /\ Fundamental("pegRatio") <= 12, "PEG">>,
           <<HasNumber("earningsGrowth") /\ Fundamental("earningsGrowth") > 10, "EPS_GROWTH">>,
           <<HasNumber("revenueGrowth") /\ Fundamental("revenueGrowth") > 10, "REVENUE_GROWTH">>,
           <<above(curr.MA20, curr.MA60), "MA_BULL">>,
           <<above(curr.Close, curr.MA60), "ABOVE_MA60">>,
           <<curr.MA60_Rising, "MA60_RISING">>,
           <<IsNum(prev.RSI) /\ IsNum(curr.RSI) /\ prev.RSI < 40 /\ curr.RSI >= 40, "RSI_UP">>,
           <<IsNum(prev.MACD_Hist) /\ IsNum(curr.MACD_Hist) /\ curr.MACD_Hist > 0
               /\ curr.MACD_Hist > prev.MACD_Hist, "MACD_UP">>,
           <<IsNum(curr.Close) /\ IsNum(curr.High_60) /\ curr.Close > curr.High_60, "BREAK_HIGH">>,
           <<IsNum(curr.Vol_MA20)
               /\ (IF curr.Vol_MA20 = 0 THEN curr.Volume > 0
                   ELSE 10 * curr.Volume >= 13 * curr.Vol_MA20), "VOLUME">> >>

\* The tags of the satisfied checks among the first k, in order.
RECURSIVE TagsOf(_, _)
TagsOf(checks, k) ==
    IF k = 0 THEN <<>>
    ELSE TagsOf(checks, k - 1) \o (IF checks[k][1] THEN <<checks[k][2]>> ELSE <<>>)

\* The half point: positive EPS when the EPS-growth check failed.
HalfPoint ==
    /\ ~(HasNumber("earningsGrowth") /\ Fundamental("earningsGrowth") > 10)
    /\ HasNumber("trailingEps") /\ Fundamental("trailingEps") > 0

\* The result of analyze_stock is one point and one tag per satisfied check,
\* the half point without a tag, and score = points / 10 * 100.
ScoredBy(checks) ==
    /\ ret.reasons = TagsOf(checks, 11)
    /\ ret.halves = 2 * Len(TagsOf(checks, 11)) + (IF HalfPoint THEN 1 ELSE 0)
    /\ ret.score.whole = 5 * ret.halves /\ ret.score.ulps \in {0, 1}

\* C22 as stated: the trend checks are MA20 >= MA60 and close >= MA60.
C22_PointsInclusiveTrend == AnalyzeResult => ScoredBy(ScorerChecks(TRUE))

\* C22 amended: the trend checks are MA20 > MA60 and close > MA60; the volume
\* check on Vol_MA20 = 0 passes only for a positive volume.
C22_PointsStrictTrend == AnalyzeResult => ScoredBy(ScorerChecks(FALSE))

\* A result on a row with MA20 = MA60 = close: no trend point, and the half
\* point for positive EPS.
C22_Witness ==
    /\ AnalyzeResult /\ HalfPoint
    /\ df.rows[Len(df.rows)].MA20 = df.rows[Len(df.rows)].MA60
    /\ df.rows[Len(df.rows)].Close = df.rows[Len(df.rows)].MA60
    /\ IsNum(df.rows[Len(df.rows)].MA60)
    /\ Len(ret.reasons) > 0

\* C25 as stated: on no table of at least 30 rows do the Trend conditions and
\* the Pullback conditions of the selector hold together.
C25_TestsExclusive ==
    SelectCalled /\ ~insufficient(df) =>
        ~(TrendOnLastRow /\ PullbackOnLastRow("Low"))

\* C25 amended: the two tests can hold together; the selector tries Trend
\* first, so it returns Trend whenever the Trend conditions hold (the Pullback
\* conditions holding or not) and Pullback only when they fail.
C25_TrendTakesPrecedence ==
    SelectCalled /\ ~insufficient(df) /\ call.market_regime # "BEAR" =>
        /\ TrendOnLastRow => ret.mode = "Trend"
        /\ ret.mode = "Pullback" => ~TrendOnLastRow /\ PullbackOnLastRow("Low")

\* Both tests hold and the selector returned Trend.
C25_Witness ==
    /\ SelectCalled /\ ~insufficient(df) /\ call.market_regime # "BEAR"
    /\ TrendOnLastRow /\ PullbackOnLastRow("Low")
    /\ ret.mode = "Trend"

\* The engine went through all three layers: at least 30 rows, the gate
\* allowed longs and the selector chose a mode.
EngineEvaluated ==
    /\ EngineCalled /\ ~insufficient(df)
    /\ ret.mode \in {"A", "B"}

\* The 20-day volume average of the last row is a positive number.
Liquid == IsNum(curr_row(df).Vol_MA20) /\ curr_row(df).Vol_MA20 > 0

\* C26 as stated: under NEUTRAL the engine returns watch = false, buy = false,
\* signal none, confidence 10 with a mode and 0 with NoTrade; the engine's
\* confidence is always one of 0, 10, 60, 100, and it is 100 exactly when buy
\* is true.
C26_ConfidenceValues ==
    EngineCalled =>
        /\ ret.market_regime = "NEUTRAL" =>
             /\ ~ret.watch /\ ~ret.buy /\ ret.signal = "none"
             /\ ret.confidence = IF ret.mode = "NoTrade" THEN 0 ELSE 10
        /\ ret.confidence \in {0, 10, 60, 100}
        /\ ret.confidence = 100 <=> ret.buy

\* C26 amended: under NEUTRAL watch and buy are false and confidence is 10
\* when a mode was selected and Vol_MA20 > 0, else 0; the engine's confidence
\* is one of 0, 10, 20, 60, 100, where 20 is BULL with a mode and watch =
\* false; confidence = 100 exactly when buy is true.
C26_ConfidenceValuesWith20 ==
    EngineCalled =>
        /\ ret.market_regime = "NEUTRAL" =>
             /\ ~ret.watch /\ ~ret.buy /\ ret.signal = "none"
             /\ ret.confidence = IF ret.mode # "NoTrade" /\ Liquid THEN 10 ELSE 0
        /\ ret.confidence \in {0, 10, 20, 60, 100}
        /\ ret.confidence = 20 <=>
             EngineEvaluated /\ Liquid /\ ret.market_regime = "BULL" /\ ~ret.watch
        /\ ret.confidence = 60 <=> ret.watch /\ ~ret.buy
        /\ ret.confidence = 100 <=> ret.buy

\* BULL, Mode A, and a close below every close of the prior 10 days: no watch,
\* confidence 20.
C26_Witness ==
    /\ EngineEvaluated /\ ret.market_regime = "BULL" /\ ret.mode = "A"
    /\ ~ret.watch /\ ret.confidence = 20

\* NEUTRAL with Mode A on a table whose Vol_MA20 is zero or undefined:
\* confidence 0 with a mode selected.
C26_WitnessIlliquid ==
    /\ EngineEvaluated /\ ret.market_regime = "NEUTRAL" /\ ~Liquid
    /\ ret.confidence = 0

\* NEUTRAL with a mode selected: confidence 10.
C26_WitnessNeutral ==
    /\ EngineEvaluated /\ ret.market_regime = "NEUTRAL" /\ ret.confidence = 10

\* C27: within strategy_engine Trend (mode B) is selected only under BULL;
\* under BULL it is selected exactly when close > MA20; when it is selected
\* and Vol_MA20 > 0 the record has watch = true; and the selector's Trend
\* outcome is decided by the four conditions alone, the low-consolidation
\* clause never changing it.
C27_TrendOnlyUnderBull ==
    LET last == curr_row(df)
    IN  /\ EngineCalled /\ ~insufficient(df) =>
             /\ ret.mode = "B" => ret.market_regime = "BULL"
             /\ ret.market_regime = "BULL" =>
                  (ret.mode = "B" <=> IsNum(last.MA20) /\ last.Close > last.MA20)
             /\ ret.mode = "B" /\ Liquid => ret.watch
        /\ SelectCalled /\ ~insufficient(df) /\ call.market_regime # "BEAR" =>
             (ret.mode = "Trend" <=>
                 /\ IsNum(last.Close) /\ IsNum(last.MA20) /\ IsNum(last.MA60)
                 /\ IsNum(ma60_slope(df))
                 /\ last.Close > last.MA20 /\ last.Close >= last.MA60
                 /\ last.MA20 >= last.MA60 /\ ma60_slope(df) > 0)

\* The engine under BULL with close <= MA20: a mode other than B.
C27_Witness ==
    /\ EngineCalled /\ ~insufficient(df) /\ ret.market_regime = "BULL"
    /\ curr_row(df).Close <= curr_row(df).MA20 /\ ret.mode = "A"

\* The engine under BULL with mode B and watch = true.
C27_WitnessTrend ==
    /\ EngineCalled /\ ret.market_regime = "BULL" /\ ret.mode = "B" /\ ret.watch

----------------------------------------------------------------------------
(* The enriched series *)

ProcessCalled == call.fn = "_process_indicators" /\ ret.outcome = "df"

\* The column is NaN on the first w - 1 rows of the output and a number on
\* every later row.
UndefinedBelow(col, w) ==
    \A i \in 1..Len(ret.rows) : IsNum(ret.rows[i][col]) <=> i >= w

\* The rolling columns, RSI and K/D/J with the widths of their windows.
ROLLING_WINDOWS ==
    {<<"MA5", 5>>, <<"MA10", 10>>, <<"MA20", 20>>, <<"MA60", LONG_WINDOW>>,
     <<"Vol_MA5", 5>>, <<"Vol_MA20", 20>>, <<"Vol_MA60", LONG_WINDOW>>,
     <<"High_60", LONG_WINDOW>>, <<"Low_60", LONG_WINDOW>>,
     <<"RSI", RSI_WINDOW>>,
     <<"K", KDJ_WINDOW>>, <<"D", KDJ_WINDOW>>, <<"J", KDJ_WINDOW>>}

\* The MACD lines with the spans of the averages they are built on: 26 for
\* the slower of the two averages behind DIF, 9 for DEA.
EMA_WINDOWS ==
    {<<"DIF", 26>>, <<"MACD", 26>>, <<"DEA", 9>>, <<"MACD_Signal", 9>>,
     <<"MACD_Hist", 9>>}

\* C24: in the output of _process_indicators every rolling or EMA column with
\* window w is undefined on the first w - 1 rows and defined afterwards, and
\* the output has as many rows as the input.
C24_WindowedColumnsUndefinedAtStart ==
    ProcessCalled =>
        /\ Len(ret.rows) = Len(df.rows)
        /\ \A cw \in ROLLING_WINDOWS \cup EMA_WINDOWS :
              UndefinedBelow(cw[1], cw[2])

\* No row of the input lacks a value.
BarsDefined ==
    \A i \in 1..Len(df.rows) :
        /\ IsNum(df.rows[i].Close) /\ IsNum(df.rows[i].High)
        /\ IsNum(df.rows[i].Low) /\ IsNum(df.rows[i].Volume)

\* C24 as the code has it: no row is added or dropped; the MACD lines are
\* numbers on every row (the first one included); and, for a series without
\* missing values, the rolling columns, RSI and K/D/J are undefined exactly
\* below their window.
C24_OnlyRollingColumnsUndefinedAtStart ==
    ProcessCalled =>
        /\ Len(ret.rows) = Len(df.rows)
        /\ IsNum(df.rows[1].Close) =>
              \A cw \in EMA_WINDOWS, i \in 1..Len(ret.rows) :
                  IsNum(ret.rows[i][cw[1]])
        /\ BarsDefined =>
              \A cw \in ROLLING_WINDOWS : UndefinedBelow(cw[1], cw[2])

\* A table longer than the longest window went through the pipeline and its
\* first row carries a MACD value.
C24_Witness ==
    /\ ProcessCalled /\ BarsDefined
    /\ Len(ret.rows) > LONG_WINDOW
    /\ IsNum(ret.rows[1].DIF) /\ IsNum(ret.rows[1].MACD_Hist)
    /\ ~IsNum(ret.rows[LONG_WINDOW - 1].MA60)
    /\ IsNum(ret.rows[LONG_WINDOW].MA60)

----------------------------------------------------------------------------
(* The scorer on downloaded bars *)

FetchAnalyzed == call.fn = "fetch_data+analyze_stock" /\ ret.outcome = "result"

\* Every bar closes at or below its high.
CloseWithinHigh == \A i \in 1..Len(df.rows) : Le(df.rows[i].Close, df.rows[i].High)

InReasons(tag) == \E k \in 1..Len(ret.reasons) : ret.reasons[k] = tag

\* C28: on a bar series whose every row has close <= high the scorer never
\* awards the point of the close-above-60-day-high check, so that at most ten
\* points (twenty halves) are scored.
C28_BreakHighNeverAwarded ==
    (FetchAnalyzed /\ CloseWithinHigh) =>
        /\ ~InReasons("BREAK_HIGH")
        /\ ret.halves <= 20
        /\ ret.score.whole <= 100
        /\ ret.score.whole = 100 => ret.score.ulps = 0

\* A rising series longer than the 60-row window whose last bar closes at its
\* high, a new 60-row high: High_60 of the last row is that very close, and
\* nine checks are satisfied.
C28_Witness ==
    /\ FetchAnalyzed /\ CloseWithinHigh
    /\ Len(df.rows) > LONG_WINDOW
    /\ df.rows[Len(df.rows)].High = df.rows[Len(df.rows)].Close
    /\ \A i \in 1..(Len(df.rows) - 1) :
          df.rows[i].High < df.rows[Len(df.rows)].Close
    /\ ret.halves >= 18

\* The point is awarded to a last bar that closes above its own high.
C28_WitnessCloseAboveHigh ==
    /\ FetchAnalyzed /\ ~CloseWithinHigh
    /\ InReasons("BREAK_HIGH")

----------------------------------------------------------------------------
(* The chip events of a session *)

ChipHistory == session_state.chip_switch_history

\* The event of the most recent record_chip_event call.
CalledEvent(c) ==
    chip_event(c.args.stock_id, c.args.kind, c.args.prev_val, c.args.last_val,
               c.args.date)

IsSuffix(t, u) == Len(t) <= Len(u) /\ t = last_n(u, Len(t))

\* At most HISTORY_LIMIT events, no two neighbours with the same stock_id,
\* type and date, and the last event of the called stock is the called one.
ChipHistoryInv ==
    /\ Len(ChipHistory) <= HISTORY_LIMIT
    /\ \A k \in 1..(Len(ChipHistory) - 1) :
          ~same_event_key(ChipHistory[k], ChipHistory[k + 1])
    /\ call.fn = "record_chip_event" =>
          session_state.last_chip_switch[call.args.stock_id] = CalledEvent(call)

\* A call leaves the list alone (a duplicate of the last entry) or makes it
\* the last entries, up to HISTORY_LIMIT, of the old list plus the new event;
\* the last events of the other stocks stay.
ChipHistoryStep ==
    call'.fn = "record_chip_event" =>
        LET event == CalledEvent(call')
            full  == Append(ChipHistory, event)
        IN  /\ IF Len(ChipHistory) > 0
                  /\ same_event_key(ChipHistory[Len(ChipHistory)], event)
               THEN session_state'.chip_switch_history = ChipHistory
               ELSE /\ session_state'.chip_switch_history =
                          last_n(full, HISTORY_LIMIT)
                    /\ IsSuffix(session_state'.chip_switch_history, full)
            /\ \A sid \in StockIds \ {event.stock_id} :
                  session_state'.last_chip_switch[sid] =
                  session_state.last_chip_switch[sid]

\* C30: after any sequence of record_chip_event calls the session history
\* holds at most 50 events, the most recent ones in call order, no two adjacent
\* events share stock_id, type and date, and last_chip_switch_<stock_id> is the
\* event of the most recent call for that stock, also when that call was
\* skipped as a duplicate.
C30_HistoryCappedAndDeduplicated ==
    []ChipHistoryInv /\ [][ChipHistoryStep]_vars

\* More calls than the limit were made, the list is full, and the last call
\* was skipped as a duplicate of the last entry although its values differ:
\* the last event of that stock is the skipped one.
C30_Witness ==
    /\ call.fn = "record_chip_event"
    /\ call.n > HISTORY_LIMIT + 1
    /\ Len(ChipHistory) = HISTORY_LIMIT
    /\ ChipHistory[1].date = 0
    /\ same_event_key(ChipHistory[HISTORY_LIMIT], CalledEvent(call))
    /\ ChipHistory[HISTORY_LIMIT] # CalledEvent(call)
    /\ session_state.last_chip_switch[call.args.stock_id] = CalledEvent(call)

----------------------------------------------------------------------------
(* The flows *)

ForeignDataReturned == call.fn = "get_foreign_data" /\ ret.outcome = "df"
ChipSectionAligned ==
    call.fn = "render_deep_checkup_view" /\ ~aligned_chips.none

\* The dates of the foreign-investor records of the raw table, and the net
\* amount (in shares) of all such records of one date.
ForeignDates(raw) ==
    {raw.rows[k].date : k \in {j \in 1..Len(raw.rows) : is_foreign(raw.rows[j].name)}}

NetShares(raw, date) ==
    LET S == {k \in 1..Len(raw.rows) :
                 is_foreign(raw.rows[k].name) /\ raw.rows[k].date = date}
    IN  SumDefined([k \in 1..Len(raw.rows) |-> raw.rows[k].buy - raw.rows[k].sell], S)

\* The table of get_foreign_data has every date of a foreign record exactly
\* once, in increasing order; its net flow is that of all records of the date
\* and its 5-day average that of the last five dates.
FlowsSummedByDate ==
    ForeignDataReturned =>
        LET t == ret.frame IN
        /\ \A i \in 1..(Len(t.index) - 1) : t.index[i] < t.index[i + 1]
        /\ {t.index[i] : i \in 1..Len(t.index)} = ForeignDates(call.raw)
        /\ \A i \in 1..Len(t.index) :
              /\ 1000 * t.rows[i].Net_Buy = NetShares(call.raw, t.index[i])
              /\ IF i < CHIP_MA_WINDOW THEN ~IsNum(t.rows[i].Chip_MA5)
                 ELSE CHIP_MA_WINDOW * 1000 * t.rows[i].Chip_MA5 =
                      SumDefined([d \in 1..MaxFlowDate + 1 |-> NetShares(call.raw, d)],
                                 {t.index[k] : k \in (i - CHIP_MA_WINDOW + 1)..i})

\* The flow dates that are trading dates too, up to trading date d.
SourcesUpTo(d) ==
    {f \in ForeignDates(call.raw) :
        f <= d /\ \E j \in 1..Len(df.index) : df.index[j] = f}

\* The aligned net flow of a trading date is that of the latest flow date at
\* or before it (among the trading dates), and undefined when there is none:
\* in particular on every trading date before the first flow record.
AlignedByForwardFill ==
    ChipSectionAligned =>
        /\ Len(aligned_chips.rows) = Len(df.index)
        /\ \A j \in 1..Len(df.index) :
              LET S == SourcesUpTo(df.index[j])
                  v == aligned_chips.rows[j].Net_Buy
              IN  /\ (\A f \in ForeignDates(call.raw) : f > df.index[j]) => ~IsNum(v)
                  /\ IF S = {} THEN ~IsNum(v)
                     ELSE 1000 * v =
                          NetShares(call.raw, CHOOSE f \in S : \A g \in S : g <= f)

\* C23: the flow normalizer sums the buy and sell amounts of all rows of a
\* date before deriving the date's net flow and 5-day average, each date
\* appearing once; the alignment to the trading dates is forward-fill only:
\* no aligned value comes from a record dated after its trading date, and the
\* trading dates before the first flow record stay undefined.
C23_SummedByDateAlignedForward ==
    FlowsSummedByDate /\ AlignedByForwardFill

\* The chip section aligned flows with two foreign records on one date: the
\* first trading date is before the first flow date and stays undefined, a
\* trading date without a record carries the preceding date's flow (which
\* differs from the next record's), and a record follows it.
C23_Witness ==
    /\ ChipSectionAligned
    /\ \E k1, k2 \in 1..Len(call.raw.rows) :
          /\ k1 # k2
          /\ is_foreign(call.raw.rows[k1].name) /\ is_foreign(call.raw.rows[k2].name)
          /\ call.raw.rows[k1].date = call.raw.rows[k2].date
    /\ Len(df.index) >= 3
    /\ \A f \in ForeignDates(call.raw) : f > df.index[1]
    /\ ~IsNum(aligned_chips.rows[1].Net_Buy)
    /\ \E j \in 2..(Len(df.index) - 1) :
          /\ df.index[j] \notin ForeignDates(call.raw)
          /\ df.index[j + 1] \in ForeignDates(call.raw)
          /\ IsNum(aligned_chips.rows[j].Net_Buy)
          /\ aligned_chips.rows[j].Net_Buy = aligned_chips.rows[j - 1].Net_Buy
          /\ aligned_chips.rows[j].Net_Buy # aligned_chips.rows[j + 1].Net_Buy

\* A table of at least five dates came back, one of them with two foreign
\* records, and its last row has a 5-day average.
C23_WitnessSummed ==
    /\ ForeignDataReturned
    /\ Len(ret.frame.rows) >= CHIP_MA_WINDOW
    /\ IsNum(ret.frame.rows[Len(ret.frame.rows)].Chip_MA5)
    /\ \E i \in 1..Len(ret.frame.index) :
          Cardinality({k \in 1..Len(call.raw.rows) :
              is_foreign(call.raw.rows[k].name)
              /\ call.raw.rows[k].date = ret.frame.index[i]}) = 2

----------------------------------------------------------------------------
(* The lots of the holdings page *)

RECURSIVE SumQty(_, _, _)
SumQty(recs, code, n) ==
    IF n = 0 THEN 0
    ELSE (IF recs[n].code = code THEN recs[n].qty ELSE 0) + SumQty(recs, code, n - 1)

\* Shares of a code held in a session, and shares recorded as sold.
Held(ss, code) == SumQty(ss.holdings, code, Len(ss.holdings))
Sold(ss, code) == SumQty(ss.history, code, Len(ss.history))

\* A sale takes the sold quantity, which the selected lot covers, from that
\* lot: every lot but the selected one stays as it was, the selected one
\* loses the sold shares (and leaves the list when none is left), and held
\* plus sold shares of every code are what they were.
SellTakesFromOneLot ==
    call'.fn = "sell_holding" =>
        LET k   == selected_lot(session_state, call'.code)
            lot == session_state.holdings[k]
            rec == session_state'.history[Len(session_state'.history)]
            others(h, skip) ==
                [j \in 1..(Len(h) - 1) |-> IF j < skip THEN h[j] ELSE h[j + 1]]
        IN  /\ rec.qty <= lot.qty
            /\ IF rec.qty = lot.qty
               THEN session_state'.holdings = others(session_state.holdings, k)
               ELSE session_state'.holdings =
                        [session_state.holdings EXCEPT ![k].qty = lot.qty - rec.qty]
            /\ \A code \in StockIds :
                  Held(session_state', code) + Sold(session_state', code)
                  = Held(session_state, code) + Sold(session_state, code)

\* Adding a lot adds its shares to the code's total and nothing else.
AddAddsALot ==
    call'.fn = "add_holding_form" =>
        \A code \in StockIds :
            Held(session_state', code) + Sold(session_state', code)
            = Held(session_state, code) + Sold(session_state, code)
              + (IF code = call'.code THEN call'.qty ELSE 0)

\* C29: in any sequence of add, sell and delete operations a sale of q shares
\* against one lot removes exactly q shares of that lot: the other lots of
\* the code stay, the recorded quantity never exceeds the lot's, and shares
\* added = shares held + shares sold for every code.
C29_SellRemovesOnlySoldShares ==
    [][SellTakesFromOneLot /\ AddAddsALot]_vars

\* What the page does instead: the record takes the quantity of the form as
\* it is, and a sale of at least the first lot's quantity removes every lot
\* of the code.
C29_SellRemovesEveryLotOfTheCode ==
    [][call'.fn = "sell_holding" =>
        LET k   == selected_lot(session_state, call'.code)
            lot == session_state.holdings[k]
            rec == session_state'.history[Len(session_state'.history)]
        IN  /\ rec.qty = call'.qty
            /\ IF call'.qty >= lot.qty
               THEN session_state'.holdings =
                        without_code(session_state.holdings, call'.code)
               ELSE session_state'.holdings =
                        [session_state.holdings EXCEPT ![k].qty = lot.qty - call'.qty]
      ]_vars

\* A series with a missing row went through the pipeline: the MACD lines and
\* K carry on over the gap, the 5-row average is undefined for five rows.
C24_WitnessGap ==
    /\ ProcessCalled /\ ~BarsDefined
    /\ ~IsNum(df.rows[15].Close)
    /\ IsNum(ret.rows[15].DIF) /\ IsNum(ret.rows[16].DIF)
    /\ IsNum(ret.rows[15].K)
    /\ ~IsNum(ret.rows[15].MA5) /\ ~IsNum(ret.rows[19].MA5)
    /\ IsNum(ret.rows[20].MA5)

====
